---- MODULE Spec2Model ----
(***************************************************************************)
(* Ring-array object pool (objpool) of the kretprobe scalability work:     *)
(* per-cpu ring slots with epoch tags (ages[]), lock-free push and pop.    *)
(* The model follows the "rs" variant (objpool_slot / objpool_head) and    *)
(* the benchmark harness that populates and exercises it.                  *)
(***************************************************************************)
EXTENDS Integers, Sequences, FiniteSets, TLC

(***************************************************************************)
(* Bounds of the model.                                                    *)
(***************************************************************************)
NThreads == 2      \* concurrent callers of push / pop
FewObjs == 2       \* objects of the pool that pushes unconditionally
ManyObjs == 5      \* objects of the pool that pushes with the bounded primitive
MaxPush == 3       \* pushes started in one behaviour (caps os_tail)
MaxHeld == 1       \* references one concurrent caller holds at a time
MaxCpus == 3       \* largest machine of the one-caller specification
MaxExt == 5        \* references the caller allocates for objpool_add_scattered
BulkObjs == 16     \* objects of the largest pool and of the largest bulk buffer
MaxFini == 2       \* calls of objpool_fini on one pool
WrapNear == 6      \* how far below the wrap of uint32_t an aged slot starts
MaxWalk == 4       \* slots a push of the aged pool is followed over
MaxCbAt == 2       \* last object of a buffer on which the objinit callback may fail
\* uint32_t counters wrap at 2^32, beyond the integers of the model checker;
\* the model keeps the modular arithmetic with the modulus scaled to 2^30.
UintMod == 1073741824

(***************************************************************************)
(* Program constants.                                                      *)
(***************************************************************************)
L1_CACHE_BYTES == 64
HeapBase == 8192           \* where the slots are allocated
SlotSpan == 1024           \* distance between the slots of two cpus
BufAddr == 1024            \* a word-aligned buffer handed to populate
TableAddr == 4096          \* where the array of slot pointers is allocated
CpuLimit == 65536          \* 1UL << 16: oh_ncpus is a uint16_t
SizeofSlot == 16           \* sizeof(struct objpool_slot): 4 x uint32_t
SizeofAge == 4             \* sizeof(uint32_t)
SizeofPtr == 8             \* sizeof(void *)
SizeofFreelistSlot == 32   \* sizeof(struct freelist_slot): 4 x uint32_t, 2 pointers
NCpus == 2                 \* num_possible_cpus()
NULL == 0

Threads == 1 .. NThreads
Refs == 1 .. ManyObjs
CpusOf(h) == 0 .. (h.oh_ncpus - 1)

(***************************************************************************)
(* Integer helpers.                                                        *)
(***************************************************************************)
RECURSIVE BitAnd(_, _)
BitAnd(a, b) ==
    IF a = 0 \/ b = 0 THEN 0
    ELSE (IF a % 2 = 1 /\ b % 2 = 1 THEN 1 ELSE 0) + 2 * BitAnd(a \div 2, b \div 2)

RECURSIVE rounddown_pow_of_two(_)
rounddown_pow_of_two(n) == IF n <= 1 THEN 1 ELSE 2 * rounddown_pow_of_two(n \div 2)

RECURSIVE roundup_pow_of_two(_)
roundup_pow_of_two(n) == IF n <= 1 THEN 1 ELSE 2 * roundup_pow_of_two((n + 1) \div 2)

\* the slot header is forgotten and the count rounded up
NumOfObjsRoundUp(size) == roundup_pow_of_two(size \div (SizeofAge + SizeofPtr))

\* compute the suitable num of objects to be managed by slot
__objpool_num_of_objs(size) ==
    rounddown_pow_of_two((size - SizeofSlot) \div (SizeofAge + SizeofPtr))

\* the capacity is never doubled
GrowNentsNever(nents, cpus, nobjs) == nents

\* while (nents * cpus < nobjs) nents = nents << 1
RECURSIVE GrowNents(_, _, _)
GrowNents(nents, cpus, nobjs) ==
    IF (nents * cpus) % UintMod < nobjs THEN GrowNents((nents * 2) % UintMod, cpus, nobjs)
    ELSE nents

\* the imbalance degree is ignored
InitNentsBalanced(nobjs, asym, cpus) ==
    LET n0 == nobjs \div cpus
        n1 == IF n0 < __objpool_num_of_objs(L1_CACHE_BYTES)
              THEN __objpool_num_of_objs(L1_CACHE_BYTES) ELSE n0
    IN  GrowNents(roundup_pow_of_two(n1), cpus, nobjs)

\* objpool_init: the per-slot capacity for nobjs objects and imbalance asym
InitNents(nobjs, asym, cpus) ==
    LET n0 == IF asym # 0 THEN nobjs \div asym ELSE nobjs \div cpus
        n1 == IF n0 < __objpool_num_of_objs(L1_CACHE_BYTES)
              THEN __objpool_num_of_objs(L1_CACHE_BYTES) ELSE n0
    IN  GrowNents(roundup_pow_of_two(n1), cpus, nobjs)

(***************************************************************************)
(* Slot primitives, one per memory access of the code.                     *)
(***************************************************************************)
\* a zeroed slot that starts at the 1st round
NewSlotFromZero(nents) ==
    [os_head |-> 0, os_tail |-> 0, os_size |-> nents,
     os_mask |-> nents - 1,
     ages |-> [i \in 0 .. (nents - 1) |-> 0],
     ents |-> [i \in 0 .. (nents - 1) |-> NULL]]

\* __objpool_init_percpu_slots: a zeroed slot that starts at the 2nd round
NewSlot(nents) ==
    [os_head |-> nents, os_tail |-> nents, os_size |-> nents,
     os_mask |-> nents - 1,
     ages |-> [i \in 0 .. (nents - 1) |-> 0],
     ents |-> [i \in 0 .. (nents - 1) |-> NULL]]

SlotIdx(os, n) == BitAnd(n, os.os_mask)

\* the increment of os_tail is lost
IncTailLost(os) == os

\* the age is published at the reservation, before the object is stored
IncTailPublish(os) ==
    [os EXCEPT !.os_tail = (os.os_tail + 1) % UintMod,
               !.ages[BitAnd(os.os_tail, os.os_mask)] = os.os_tail]

\* atomic_inc_return(&os->os_tail)
IncTail(os) == [os EXCEPT !.os_tail = (os.os_tail + 1) % UintMod]

\* WRITE_ONCE(ents[tail & os->os_mask], obj)
StoreEnt(os, tail, obj) == [os EXCEPT !.ents[SlotIdx(os, tail)] = obj]

\* smp_store_release(&ages[tail & os->os_mask], tail)
StoreAge(os, tail) == [os EXCEPT !.ages[SlotIdx(os, tail)] = tail]

\* the fullness test forgets the size of the ring
SlotFullNoSize(os, head, tail) == tail >= head

\* the slot counts as full one entry late
SlotFullOneOver(os, head, tail) == tail > (head + os.os_size) % UintMod

\* __objpool_try_add_slot: "just abort if slot is full"
SlotFull(os, head, tail) == tail >= (head + os.os_size) % UintMod

\* __objpool_try_get_slot: is the head item ready for retrieval
AgeReady(os, head) == os.ages[SlotIdx(os, head)] = head

\* a plain store where the code uses a compare-and-swap
CasBlind(cur, old) == TRUE

\* try_cmpxchg on os_head / os_tail: TRUE iff the word still holds old
CasOk(cur, old) == cur = old

\* the pop keeps looping on the slot whatever it reloads
HeadNeverSame(os, prev) == FALSE

\* __objpool_try_get_slot: "head stays unchanged", the pop leaves the slot
HeadUnchanged(os, prev) == os.os_head = prev

\* the unconditional primitive is used whatever the object count
UseTryAddNever(h) == FALSE

\* the bounded primitive is used whatever the object count
UseTryAddAlways(h) == TRUE

\* objpool_push: which add primitive the pool uses
UseTryAdd(h) == h.oh_nobjs > h.oh_nents

\* the search never leaves the slot it started on
NextCpuStay(h, c) == c

\* the search walks the slots downwards
NextCpuDown(h, c) == IF c = 0 THEN h.oh_ncpus - 1 ELSE c - 1

\* ++cpu, wrapping at oh_ncpus
NextCpu(h, c) == IF c + 1 >= h.oh_ncpus THEN 0 ELSE c + 1

(***************************************************************************)
(* Construction: objpool_init (objsz = 0) followed by the harness adding   *)
(* maxactive references with objpool_add_scattered.                        *)
(***************************************************************************)
\* __objpool_add_slot run to completion (no concurrency during init)
AddSlotSeq(os, obj) ==
    LET t == os.os_tail
    IN  StoreAge(StoreEnt(IncTail(os), t, obj), t)

\* ALIGN(x, a): x rounded up to a multiple of a
ALIGN(x, a) == ((x + a - 1) \div a) * a

\* where the allocator places the slot of cpu i: one fixed layout of disjoint
\* blocks stands for any result of kmalloc_node / vmalloc_node
SlotAddr(i) == HeapBase + i * SlotSpan

\* SLOT_OBJS(os): the first object embedded behind the ring of the slot at addr
SLOT_OBJS(addr, nents) == addr + SizeofSlot + (SizeofAge + SizeofPtr) * nents

\* how many objects __objpool_init_percpu_slots gives to the slot of cpu i
SlotShare(nobjs, cpus, i) == (nobjs \div cpus) + (IF i < nobjs % cpus THEN 1 ELSE 0)

\* ents[ie] = obj; ages[ie] = os->os_tail; os->os_tail++
EmbedOne(os, obj) == IncTail(StoreAge(StoreEnt(os, os.os_tail, obj), os.os_tail))

\* the loop over the n objects embedded in one slot, from the j-th on
RECURSIVE EmbedLoop(_, _, _, _, _)
EmbedLoop(os, objs, objsz, n, j) ==
    IF j >= n THEN os
    ELSE EmbedLoop(EmbedOne(os, objs + j * objsz), objs, objsz, n, j + 1)

\* the addresses of the objects embedded in the slots of cpus i .. cpus - 1, in
\* the order __objpool_init_percpu_slots inserts them
RECURSIVE EmbedOrder(_, _, _, _, _)
EmbedOrder(nobjs, objsz, nents, cpus, i) ==
    IF i >= cpus THEN <<>>
    ELSE [j \in 1 .. SlotShare(nobjs, cpus, i) |->
             SLOT_OBJS(SlotAddr(i), nents) + (j - 1) * objsz]
         \o EmbedOrder(nobjs, objsz, nents, cpus, i + 1)

\* an allocation, a release or a callback, in the order the code makes them
Event(ev, addr) == [ev |-> ev, addr |-> addr]

\* the slot pointers of the table, by cpu
SlotPtrs(h) == [k \in 1 .. Cardinality(DOMAIN h.oh_slots) |-> h.oh_slots[k - 1]]

IsSet(ptr) == ptr # NULL

\* the slots are released and the table is left in place
FiniSlotsKeepTable(h) ==
    IF h.oh_slots = <<>> THEN [h |-> h, trace |-> <<>>]
    ELSE LET live == SelectSeq(SlotPtrs(h), IsSet)
         IN  [h |-> h,
              trace |-> [k \in 1 .. Len(live) |-> Event("free_slot", live[k])]]

\* __objpool_fini_percpu_slots: release every slot allocated, then the table
__objpool_fini_percpu_slots(h) ==
    IF h.oh_slots = <<>> THEN [h |-> h, trace |-> <<>>]
    ELSE LET live == SelectSeq(SlotPtrs(h), IsSet)
         IN  [h |-> [h EXCEPT !.oh_slots = <<>>, !.oh_sz_slots = <<>>],
              trace |-> [k \in 1 .. Len(live) |-> Event("free_slot", live[k])]
                        \o <<Event("free_table", TableAddr)>>]

\* no allocation fails and no objinit callback fails
NoFault == [kind |-> "none", at |-> 0]

\* the slot that receives the m-th embedded object (m counted from 0)
SlotOfObject(m, nobjs, cpus) ==
    LET q == nobjs \div cpus
        r == nobjs % cpus
    IN  IF m < r * (q + 1) THEN m \div (q + 1) ELSE r + (m - r * (q + 1)) \div q

\* objects embedded in the slots of the cpus below i
ShareBelow(nobjs, cpus, i) ==
    i * (nobjs \div cpus) + (IF i < nobjs % cpus THEN i ELSE nobjs % cpus)

\* __objpool_init_percpu_slots: allocate the slots, embed the objects if any.
\* fault names the allocation (kind "slot", at the cpu) or the objinit callback
\* (kind "objinit", at the object) that fails; trace lists the allocations
__objpool_init_percpu_slots(h, nobjs, fault) ==
    LET objsz == ALIGN(h.oh_objsz, SizeofPtr)
        in_slot == IF objsz # 0 THEN 1 ELSE 0
        cpus == h.oh_ncpus
        n(i) == SlotShare(nobjs, cpus, i)
        size(i) == SizeofSlot + SizeofPtr * h.oh_nents + SizeofAge * h.oh_nents + objsz * n(i)
        \* the cpu at which the loop returns early, cpus if it does not
        f == IF fault.kind = "slot" /\ fault.at < cpus THEN fault.at
             ELSE IF fault.kind = "objinit" /\ in_slot = 1 /\ fault.at < nobjs
             THEN SlotOfObject(fault.at, nobjs, cpus)
             ELSE cpus
        rc == IF f >= cpus THEN "ok"
              ELSE IF fault.kind = "slot" THEN "ENOMEM" ELSE "EOBJINIT"
        allocated(i) == i < f \/ (i = f /\ rc = "EOBJINIT")
        nalloc == IF rc = "EOBJINIT" THEN f + 1 ELSE f
        embedded(i) == IF in_slot = 0 THEN 0
                       ELSE IF i < f THEN n(i)
                       ELSE fault.at - ShareBelow(nobjs, cpus, f)
        done == IF in_slot = 0 THEN 0
                ELSE IF rc = "ok" THEN nobjs
                ELSE IF rc = "ENOMEM" THEN ShareBelow(nobjs, cpus, f)
                ELSE fault.at
    IN  [h |-> [h EXCEPT !.oh_in_slot = in_slot,
                         !.oh_nobjs = done,
                         !.oh_slots = [i \in 0 .. (cpus - 1) |->
                                          IF allocated(i) THEN SlotAddr(i) ELSE NULL],
                         !.oh_sz_slots = [i \in 0 .. (cpus - 1) |->
                                             IF allocated(i) THEN size(i) ELSE 0]],
         s |-> [i \in 0 .. (nalloc - 1) |->
                  EmbedLoop(NewSlot(h.oh_nents), SLOT_OBJS(SlotAddr(i), h.oh_nents),
                            objsz, embedded(i), 0)],
         order |-> IF in_slot = 1
                   THEN SubSeq(EmbedOrder(nobjs, objsz, h.oh_nents, cpus, 0), 1, done)
                   ELSE <<>>,
         rc |-> rc,
         trace |-> [k \in 1 .. nalloc |-> Event("alloc_slot", SlotAddr(k - 1))]]

\* memset(oh, 0, sizeof(struct objpool_head))
ZeroHead ==
    [oh_objsz |-> 0, oh_nobjs |-> 0, oh_nents |-> 0, oh_ncpus |-> 0, oh_in_slot |-> 0,
     oh_pool |-> NULL, oh_sz_pool |-> 0, oh_slots |-> <<>>, oh_sz_slots |-> <<>>]

\* a failure of the per-cpu slots is left in place: nothing is released
InitNoCleanup(nobjs, objsz, asym, cpus, fault) ==
    IF cpus >= CpuLimit
    THEN [h |-> ZeroHead, s |-> <<>>, order |-> <<>>, rc |-> "ENOTSUPP", trace |-> <<>>]
    ELSE LET h0 == [ZeroHead EXCEPT !.oh_ncpus = cpus, !.oh_objsz = objsz,
                                    !.oh_nents = InitNents(nobjs, asym, cpus)]
         IN  IF fault.kind = "table"
             THEN [h |-> h0, s |-> <<>>, order |-> <<>>, rc |-> "ENOMEM", trace |-> <<>>]
             ELSE LET r == __objpool_init_percpu_slots(h0, nobjs, fault)
                  IN  [r EXCEPT !.trace = <<Event("alloc_table", TableAddr)>> \o r.trace]

\* a machine of exactly 2^16 cpus is taken on
InitAcceptsLimit(nobjs, objsz, asym, cpus, fault) ==
    IF cpus > CpuLimit
    THEN [h |-> ZeroHead, s |-> <<>>, order |-> <<>>, rc |-> "ENOTSUPP", trace |-> <<>>]
    ELSE InitNoCleanup(nobjs, objsz, asym, IF cpus = CpuLimit THEN 1 ELSE cpus, fault)

\* objpool_init on a machine of cpus possible cpus; order lists the embedded
\* objects in the order of their insertion, trace the allocations and releases
objpool_init(nobjs, objsz, asym, cpus, fault) ==
    IF cpus >= CpuLimit
    THEN [h |-> ZeroHead, s |-> <<>>, order |-> <<>>, rc |-> "ENOTSUPP", trace |-> <<>>]
    ELSE LET h0 == [ZeroHead EXCEPT !.oh_ncpus = cpus, !.oh_objsz = objsz,
                                    !.oh_nents = InitNents(nobjs, asym, cpus)]
         IN  IF fault.kind = "table"
             THEN [h |-> h0, s |-> <<>>, order |-> <<>>, rc |-> "ENOMEM", trace |-> <<>>]
             ELSE LET r == __objpool_init_percpu_slots(h0, nobjs, fault)
                  IN  IF r.rc = "ok"
                      THEN [r EXCEPT !.trace = <<Event("alloc_table", TableAddr)>>
                                               \o r.trace]
                      ELSE LET c == __objpool_fini_percpu_slots(r.h)
                           IN  [h |-> c.h, s |-> <<>>, order |-> r.order, rc |-> r.rc,
                                trace |-> <<Event("alloc_table", TableAddr)>>
                                          \o r.trace \o c.trace]

\* the allocations of an objpool_init that succeeds on cpus cpus
InitTrace(cpus) ==
    <<Event("alloc_table", TableAddr)>>
    \o [k \in 1 .. cpus |-> Event("alloc_slot", SlotAddr(k - 1))]

\* objpool_init with objsz = 0 (freelist_init when asym = 0)
PoolInit(nobjs, asym, cpus) ==
    LET r == objpool_init(nobjs, 0, asym, cpus, NoFault)
    IN  [h |-> r.h, s |-> r.s]

\* every object goes to the slot of cpu 0
AddScatteredFirstSlot(p, obj) ==
    IF obj = NULL \/ p.h.oh_nobjs >= (p.h.oh_ncpus * p.h.oh_nents) % UintMod
    THEN [p |-> p, rc |-> "EINVAL"]
    ELSE [p |-> [h |-> [p.h EXCEPT !.oh_nobjs = (p.h.oh_nobjs + 1) % UintMod],
                 s |-> [p.s EXCEPT ![0] = AddSlotSeq(p.s[0], obj)]],
          rc |-> "ok"]

\* one object more than the capacity is accepted
AddScatteredOneOver(p, obj) ==
    IF obj = NULL \/ p.h.oh_nobjs > (p.h.oh_ncpus * p.h.oh_nents) % UintMod
    THEN [p |-> p, rc |-> "EINVAL"]
    ELSE LET c == p.h.oh_nobjs % p.h.oh_ncpus
         IN  [p |-> [h |-> [p.h EXCEPT !.oh_nobjs = (p.h.oh_nobjs + 1) % UintMod],
                     s |-> [p.s EXCEPT ![c] = AddSlotSeq(p.s[c], obj)]],
              rc |-> "ok"]

\* objpool_add_scattered with its return code
objpool_add_scattered(p, obj) ==
    IF obj = NULL \/ p.h.oh_nobjs >= (p.h.oh_ncpus * p.h.oh_nents) % UintMod
    THEN [p |-> p, rc |-> "EINVAL"]
    ELSE LET c == p.h.oh_nobjs % p.h.oh_ncpus
         IN  [p |-> [h |-> [p.h EXCEPT !.oh_nobjs = (p.h.oh_nobjs + 1) % UintMod],
                     s |-> [p.s EXCEPT ![c] = AddSlotSeq(p.s[c], obj)]],
              rc |-> "ok"]

\* objpool_add_scattered: the pool it leaves
AddScattered(p, obj) == objpool_add_scattered(p, obj).p

\* the loop stops one object short of a buffer that divides evenly
RECURSIVE PopulateLoopStrict(_, _, _, _, _, _, _)
PopulateLoopStrict(p, buf, size, objsz, fault, used, order) ==
    IF used + objsz < size
    THEN IF fault.kind = "objinit" /\ fault.at * objsz = used
         THEN [p |-> p, used |-> used, order |-> order, rc |-> "EOBJINIT"]
         ELSE LET a == objpool_add_scattered(p, buf + used)
              IN  IF a.rc # "ok"
                  THEN [p |-> p, used |-> used, order |-> order, rc |-> "ok"]
                  ELSE PopulateLoopStrict(a.p, buf, size, objsz, fault, used + objsz,
                                          Append(order, buf + used))
    ELSE [p |-> p, used |-> used, order |-> order, rc |-> "ok"]

\* the loop of objpool_populate: carve objects off the buffer until it is used
\* up or the pool takes no more
RECURSIVE PopulateLoop(_, _, _, _, _, _, _)
PopulateLoop(p, buf, size, objsz, fault, used, order) ==
    IF used + objsz <= size
    THEN IF fault.kind = "objinit" /\ fault.at * objsz = used
         THEN [p |-> p, used |-> used, order |-> order, rc |-> "EOBJINIT"]
         ELSE LET a == objpool_add_scattered(p, buf + used)
              IN  IF a.rc # "ok"
                  THEN [p |-> p, used |-> used, order |-> order, rc |-> "ok"]
                  ELSE PopulateLoop(a.p, buf, size, objsz, fault, used + objsz,
                                    Append(order, buf + used))
    ELSE [p |-> p, used |-> used, order |-> order, rc |-> "ok"]

\* a second buffer is accepted over the recorded one
PopulateOverRecorded(p, buf, size, objsz, fault) ==
    IF buf = NULL \/ objsz = 0 \/ size < objsz
    THEN [p |-> p, rc |-> "EINVAL", warn |-> FALSE, order |-> <<>>]
    ELSE IF p.h.oh_objsz # 0 /\ p.h.oh_objsz # objsz
    THEN [p |-> p, rc |-> "EINVAL", warn |-> FALSE, order |-> <<>>]
    ELSE LET w == (buf % SizeofPtr # 0) \/ (objsz % SizeofPtr # 0)
             r == PopulateLoop(p, buf, size, objsz, fault, 0, <<>>)
         IN  IF r.rc # "ok"
             THEN [p |-> r.p, rc |-> r.rc, warn |-> w, order |-> r.order]
             ELSE IF r.used = 0
             THEN [p |-> r.p, rc |-> "ENOENT", warn |-> w, order |-> <<>>]
             ELSE [p |-> [r.p EXCEPT !.h.oh_pool = buf, !.h.oh_sz_pool = size,
                                     !.h.oh_objsz = objsz],
                   rc |-> "ok", warn |-> w, order |-> r.order]

\* objpool_populate; warn is the WARN_ON_ONCE on buf or objsz, order the
\* references it inserted, fault the object (kind "objinit", at its index in
\* the buffer) on which the objinit callback fails
objpool_populate(p, buf, size, objsz, fault) ==
    IF p.h.oh_pool # NULL \/ buf = NULL \/ objsz = 0 \/ size < objsz
    THEN [p |-> p, rc |-> "EINVAL", warn |-> FALSE, order |-> <<>>]
    ELSE IF p.h.oh_objsz # 0 /\ p.h.oh_objsz # objsz
    THEN [p |-> p, rc |-> "EINVAL", warn |-> FALSE, order |-> <<>>]
    ELSE LET w == (buf % SizeofPtr # 0) \/ (objsz % SizeofPtr # 0)
             r == PopulateLoop(p, buf, size, objsz, fault, 0, <<>>)
         IN  IF r.rc # "ok"
             THEN [p |-> r.p, rc |-> r.rc, warn |-> w, order |-> r.order]
             ELSE IF r.used = 0
             THEN [p |-> r.p, rc |-> "ENOENT", warn |-> w, order |-> <<>>]
             ELSE [p |-> [r.p EXCEPT !.h.oh_pool = buf, !.h.oh_sz_pool = size,
                                     !.h.oh_objsz = objsz],
                   rc |-> "ok", warn |-> w, order |-> r.order]

\* rs_init_ring: freelist_init, then one freelist_try_add per object
RECURSIVE InitRing(_, _, _)
InitRing(maxactive, cpus, k) ==
    IF k = 0 THEN PoolInit(maxactive, 0, cpus)
    ELSE AddScattered(InitRing(maxactive, cpus, k - 1), k)

(***************************************************************************)
(* push and pop run to completion on a pool no other thread touches: the   *)
(* same statements as the stepwise actions below, executed back to back.   *)
(***************************************************************************)
\* __objpool_try_get_slot; spin marks a loop that would never end
RECURSIVE TryGetLoop(_, _, _)
TryGetLoop(os, head, fuel) ==
    IF head = os.os_tail THEN [os |-> os, obj |-> NULL, spin |-> FALSE]
    ELSE IF fuel = 0 THEN [os |-> os, obj |-> NULL, spin |-> TRUE]
    ELSE IF AgeReady(os, head) /\ CasOk(os.os_head, head)
    THEN [os |-> [os EXCEPT !.os_head = (head + 1) % UintMod],
          obj |-> os.ents[SlotIdx(os, head)], spin |-> FALSE]
    ELSE IF HeadUnchanged(os, head) THEN [os |-> os, obj |-> NULL, spin |-> FALSE]
    ELSE TryGetLoop(os, os.os_head, fuel - 1)

TryGetSlotSeq(os) == TryGetLoop(os, os.os_head, os.os_size)

\* objpool_pop from cpu: path lists the slots visited, in order
RECURSIVE PopLoop(_, _, _, _)
PopLoop(p, cpu, i, path) ==
    IF i >= p.h.oh_ncpus
    THEN [p |-> p, obj |-> NULL, path |-> path, spin |-> FALSE]
    ELSE LET r == TryGetSlotSeq(p.s[cpu])
         IN  IF r.spin THEN [p |-> p, obj |-> NULL, path |-> Append(path, cpu), spin |-> TRUE]
             ELSE IF r.obj # NULL
             THEN [p |-> [p EXCEPT !.s[cpu] = r.os], obj |-> r.obj,
                   path |-> Append(path, cpu), spin |-> FALSE]
             ELSE PopLoop(p, NextCpu(p.h, cpu), i + 1, Append(path, cpu))

PopSeq(p, cpu) == PopLoop(p, cpu, 0, <<>>)

\* __objpool_try_add_slot
TryAddSlotSeq(os, obj) ==
    LET head == os.os_head
        tail == os.os_tail
    IN  IF SlotFull(os, head, tail) THEN [os |-> os, rc |-> "ENOENT"]
        ELSE IF CasOk(os.os_tail, tail)
        THEN [os |-> StoreAge(StoreEnt([os EXCEPT !.os_tail = (tail + 1) % UintMod],
                                       tail, obj), tail),
              rc |-> "ok"]
        ELSE [os |-> os, rc |-> "spin"]

\* objpool_push from cpu: do { ... } while (1) has no exit but success, so a
\* whole pass without a taker on a pool nobody else touches never ends (spin)
RECURSIVE PushLoop(_, _, _, _, _)
PushLoop(p, cpu, obj, i, path) ==
    IF i >= p.h.oh_ncpus
    THEN [p |-> p, rc |-> "spin", at |-> cpu, path |-> path]
    ELSE LET r == IF UseTryAdd(p.h) THEN TryAddSlotSeq(p.s[cpu], obj)
                  ELSE [os |-> AddSlotSeq(p.s[cpu], obj), rc |-> "ok"]
         IN  IF r.rc = "ok"
             THEN [p |-> [p EXCEPT !.s[cpu] = r.os], rc |-> "ok", at |-> cpu,
                   path |-> Append(path, cpu)]
             ELSE IF r.rc = "spin"
             THEN [p |-> p, rc |-> "spin", at |-> cpu, path |-> Append(path, cpu)]
             ELSE PushLoop(p, NextCpu(p.h, cpu), obj, i + 1, Append(path, cpu))

PushSeq(p, cpu, obj) == PushLoop(p, cpu, obj, 0, <<>>)

(***************************************************************************)
(* State.                                                                  *)
(***************************************************************************)
VARIABLES
    oh,      \* objpool_head: oh_nobjs, oh_nents, oh_ncpus
    slots,   \* oh_slots[cpu]: the per-cpu rings
    pc,      \* pc[t]: the statement thread t executes next
    loc,     \* loc[t]: the locals of thread t's push / pop, and its work so far
    held,    \* held[t][r]: how many times caller t holds reference r
    npush,   \* pushes started so far
    last,    \* the last call made on a quiescent pool and what it returned
    run,     \* the pops made in a row from one cpu on a quiescent pool
    life,    \* construction and teardown: insertion order, release callback calls
    meter    \* whether the work of the operations in progress is being counted

vars == <<oh, slots, pc, loc, held, npush, last, run, life, meter>>

NoLoc == [cpu |-> 0, cpu0 |-> 0, i |-> 0, head |-> 0, prev |-> 0,
          tail |-> 0, node |-> NULL, obj |-> NULL, iters |-> 0, intf |-> 0]

NoLast == [op |-> "none", cpu |-> 0, obj |-> NULL, rc |-> "ok", path |-> <<>>]

NoRun == [cpu |-> 0, n0 |-> 0, rets |-> <<>>]

NoLife ==
    [phase |-> "live", count |-> 0, asym |-> 0, order |-> <<>>, calls |-> <<>>,
     trace |-> <<>>, finis |-> 0]

Init ==
    /\ \E maxactive \in {FewObjs, ManyObjs} :
          LET p == InitRing(maxactive, NCpus, maxactive)
          IN  oh = p.h /\ slots = p.s
    /\ pc = [t \in Threads |-> "idle"]
    /\ loc = [t \in Threads |-> NoLoc]
    /\ held = [t \in Threads |-> [r \in Refs |-> 0]]
    /\ npush = 0
    /\ last = NoLast
    /\ run = NoRun
    /\ life = NoLife
    /\ meter = FALSE

RECURSIVE SumOver(_, _)
SumOver(S, f) ==
    IF S = {} THEN 0
    ELSE LET x == CHOOSE y \in S : TRUE IN f[x] + SumOver(S \ {x}, f)

NHeld(t) == SumOver(DOMAIN held[t], held[t])

Slot(t) == slots[loc[t].cpu]

Goto(t, label) == pc' = [pc EXCEPT ![t] = label]

\* one more unit of work, when work is being counted
Tick(n) == IF meter THEN n + 1 ELSE n

\* accounting of the atomic update of os_head or os_tail that thread t makes:
\* every other operation in progress has been interfered with once more
Interfered(t, l) ==
    [u \in Threads |->
        IF u # t /\ pc[u] # "idle" THEN [l[u] EXCEPT !.intf = Tick(@)] ELSE l[u]]

(***************************************************************************)
(* objpool_pop and __objpool_try_get_slot.                                 *)
(***************************************************************************)
\* objpool_pop entry: cpu = raw_smp_processor_id(), i = 0
PopStart(t) ==
    /\ pc[t] = "idle"
    /\ NHeld(t) < MaxHeld
    /\ \E c \in CpusOf(oh) :
          loc' = [loc EXCEPT ![t] = [NoLoc EXCEPT !.cpu = c, !.cpu0 = c]]
    /\ Goto(t, "get_head")
    /\ UNCHANGED <<life, meter, last, run, oh, slots, held, npush>>

\* the slot gave nothing: objpool_pop moves to the next cpu or returns NULL
PopSlotFailed(t) ==
    IF loc[t].i + 1 < oh.oh_ncpus
    THEN /\ loc' = [loc EXCEPT ![t].i = loc[t].i + 1,
                               ![t].cpu = NextCpu(oh, loc[t].cpu)]
         /\ Goto(t, "get_head")
    ELSE /\ loc' = [loc EXCEPT ![t] = NoLoc]
         /\ Goto(t, "idle")

\* head = smp_load_acquire(&os->os_head)
GetHead(t) ==
    /\ pc[t] = "get_head"
    /\ loc' = [loc EXCEPT ![t].head = Slot(t).os_head]
    /\ Goto(t, "get_tail")
    /\ UNCHANGED <<life, meter, last, run, oh, slots, held, npush>>

\* while (head != READ_ONCE(os->os_tail)) { prev = head; ...
GetTail(t) ==
    /\ pc[t] = "get_tail"
    /\ IF loc[t].head # Slot(t).os_tail
       THEN /\ loc' = [loc EXCEPT ![t].prev = loc[t].head,
                                  ![t].iters = Tick(loc[t].iters)]
            /\ Goto(t, "get_age")
       ELSE PopSlotFailed(t)
    /\ UNCHANGED <<life, meter, last, run, oh, slots, held, npush>>

\* if (smp_load_acquire(&ages[id]) == head)
GetAge(t) ==
    /\ pc[t] = "get_age"
    /\ IF AgeReady(Slot(t), loc[t].head)
       THEN Goto(t, "get_ent")
       ELSE Goto(t, "get_reload")
    /\ UNCHANGED <<life, meter, last, run, oh, slots, loc, held, npush>>

\* node = READ_ONCE(ents[id])
GetEnt(t) ==
    /\ pc[t] = "get_ent"
    /\ loc' = [loc EXCEPT ![t].node = Slot(t).ents[SlotIdx(Slot(t), loc[t].head)]]
    /\ Goto(t, "get_cas")
    /\ UNCHANGED <<life, meter, last, run, oh, slots, held, npush>>

\* if (try_cmpxchg_release(&os->os_head, &head, head + 1)) return node;
GetCas(t) ==
    /\ pc[t] = "get_cas"
    /\ IF CasOk(Slot(t).os_head, loc[t].head)
       THEN /\ slots' = [slots EXCEPT ![loc[t].cpu].os_head = (loc[t].head + 1) % UintMod]
            /\ held' = [held EXCEPT ![t][loc[t].node] = @ + 1]
            /\ loc' = Interfered(t, [loc EXCEPT ![t] = NoLoc])
            /\ Goto(t, "idle")
       ELSE /\ Goto(t, "get_reload")
            /\ UNCHANGED <<slots, held, loc>>
    /\ UNCHANGED <<life, meter, last, run, oh, npush>>

\* a pop that finds the head where it was steps over the position
GetReloadSkips(t) ==
    /\ pc[t] = "get_reload"
    /\ IF HeadUnchanged(Slot(t), loc[t].prev)
       THEN /\ slots' = [slots EXCEPT ![loc[t].cpu].os_head = (loc[t].head + 1) % UintMod]
            /\ PopSlotFailed(t)
       ELSE /\ loc' = [loc EXCEPT ![t].head = Slot(t).os_head]
            /\ Goto(t, "get_tail")
            /\ UNCHANGED slots
    /\ UNCHANGED <<life, meter, last, run, oh, held, npush>>

\* head = READ_ONCE(os->os_head); if (head == prev) break;
GetReload(t) ==
    /\ pc[t] = "get_reload"
    /\ IF HeadUnchanged(Slot(t), loc[t].prev)
       THEN PopSlotFailed(t)
       ELSE /\ loc' = [loc EXCEPT ![t].head = Slot(t).os_head]
            /\ Goto(t, "get_tail")
    /\ UNCHANGED <<life, meter, last, run, oh, slots, held, npush>>

Pop(t) ==
    \/ PopStart(t)
    \/ GetHead(t)
    \/ GetTail(t)
    \/ GetAge(t)
    \/ GetEnt(t)
    \/ GetCas(t)
    \/ GetReload(t)

(***************************************************************************)
(* objpool_push, __objpool_add_slot and __objpool_try_add_slot.            *)
(***************************************************************************)
\* objpool_push entry: cpu = raw_smp_processor_id(); the caller passes a
\* reference it holds
PushStart(t) ==
    /\ pc[t] = "idle"
    /\ npush < MaxPush
    /\ \E r \in DOMAIN held[t], c \in CpusOf(oh) :
          /\ held[t][r] > 0
          /\ loc' = [loc EXCEPT ![t] = [NoLoc EXCEPT !.cpu = c, !.cpu0 = c, !.obj = r]]
    /\ Goto(t, IF UseTryAdd(oh) THEN "try_head" ELSE "add_inc")
    /\ npush' = npush + 1
    /\ UNCHANGED <<life, meter, last, run, oh, slots, held>>

\* tail = atomic_inc_return(&os->os_tail) - 1
AddInc(t) ==
    /\ pc[t] = "add_inc"
    /\ loc' = Interfered(t, [loc EXCEPT ![t].tail = Slot(t).os_tail,
                                        ![t].iters = Tick(loc[t].iters)])
    /\ slots' = [slots EXCEPT ![loc[t].cpu] = IncTail(Slot(t))]
    /\ held' = [held EXCEPT ![t][loc[t].obj] = @ - 1]
    /\ Goto(t, "add_ent")
    /\ UNCHANGED <<life, meter, last, run, oh, npush>>

\* head = READ_ONCE(os->os_head)
TryHead(t) ==
    /\ pc[t] = "try_head"
    /\ loc' = [loc EXCEPT ![t].head = Slot(t).os_head,
                           ![t].iters = Tick(loc[t].iters)]
    /\ Goto(t, "try_tail")
    /\ UNCHANGED <<life, meter, last, run, oh, slots, held, npush>>

\* tail = READ_ONCE(os->os_tail); if (tail >= head + os->os_size) return
\* -ENOENT, and objpool_push goes on with the next cpu
TryTail(t) ==
    /\ pc[t] = "try_tail"
    /\ IF SlotFull(Slot(t), loc[t].head, Slot(t).os_tail)
       THEN /\ loc' = [loc EXCEPT ![t].cpu = NextCpu(oh, loc[t].cpu),
                                  ![t].i = loc[t].i + 1]
            /\ Goto(t, "try_head")
       ELSE /\ loc' = [loc EXCEPT ![t].tail = Slot(t).os_tail]
            /\ Goto(t, "try_cas")
    /\ UNCHANGED <<life, meter, last, run, oh, slots, held, npush>>

\* if (try_cmpxchg_acquire(&os->os_tail, &tail, tail + 1)) break;
TryCas(t) ==
    /\ pc[t] = "try_cas"
    /\ IF CasOk(Slot(t).os_tail, loc[t].tail)
       THEN /\ slots' = [slots EXCEPT ![loc[t].cpu].os_tail = (loc[t].tail + 1) % UintMod]
            /\ held' = [held EXCEPT ![t][loc[t].obj] = @ - 1]
            /\ loc' = Interfered(t, loc)
            /\ Goto(t, "add_ent")
       ELSE /\ Goto(t, "try_head")
            /\ UNCHANGED <<slots, held, loc>>
    /\ UNCHANGED <<life, meter, last, run, oh, npush>>

\* WRITE_ONCE(ents[tail & os->os_mask], obj)
AddEnt(t) ==
    /\ pc[t] = "add_ent"
    /\ slots' = [slots EXCEPT ![loc[t].cpu] = StoreEnt(Slot(t), loc[t].tail, loc[t].obj)]
    /\ Goto(t, "add_age")
    /\ UNCHANGED <<life, meter, last, run, oh, loc, held, npush>>

\* smp_store_release(&ages[tail & os->os_mask], tail); return 0;
AddAge(t) ==
    /\ pc[t] = "add_age"
    /\ slots' = [slots EXCEPT ![loc[t].cpu] = StoreAge(Slot(t), loc[t].tail)]
    /\ loc' = [loc EXCEPT ![t] = NoLoc]
    /\ Goto(t, "idle")
    /\ UNCHANGED <<life, meter, last, run, oh, held, npush>>

Push(t) ==
    \/ PushStart(t)
    \/ AddInc(t)
    \/ TryHead(t)
    \/ TryTail(t)
    \/ TryCas(t)
    \/ AddEnt(t)
    \/ AddAge(t)

PopPcs == {"get_head", "get_tail", "get_age", "get_ent", "get_cas", "get_reload"}

PushPcs == {"add_inc", "try_head", "try_tail", "try_cas", "add_ent", "add_age"}

Next == \E t \in Threads : Pop(t) \/ Push(t)

Spec == Init /\ [][Next]_vars

(***************************************************************************)
(* Where the references are.                                               *)
(***************************************************************************)
\* occupancy of a slot: tail - head in uint32_t arithmetic
Occ(os) == (os.os_tail - os.os_head) % UintMod

\* the tickets a slot currently covers: head <= k < tail
Tickets(os) == {(os.os_head + j) % UintMod : j \in 0 .. (Occ(os) - 1)}

\* pushers that reserved ticket k of slot c and have not published its age
InFlight(c, k) ==
    {t \in Threads : pc[t] \in {"add_ent", "add_age"} /\ loc[t].cpu = c /\ loc[t].tail = k}

\* ticket k of slot c has been published by its push (or by the initial insert)
Published(c, k) == InFlight(c, k) = {} /\ slots[c].ages[SlotIdx(slots[c], k)] = k

\* the reference that ticket k of slot c stands for
TicketRef(c, k) ==
    IF InFlight(c, k) # {}
    THEN loc[CHOOSE t \in InFlight(c, k) : TRUE].obj
    ELSE slots[c].ents[SlotIdx(slots[c], k)]

InSlots(r) ==
    SumOver(CpusOf(oh),
            [c \in CpusOf(oh) |->
                Cardinality({k \in Tickets(slots[c]) : TicketRef(c, k) = r})])

Holders(r) == SumOver(Threads, [t \in Threads |-> held[t][r]])

\* objects in slot c right after rs_init_ring
InitCount(c) ==
    (oh.oh_nobjs \div oh.oh_ncpus) + (IF c < oh.oh_nobjs % oh.oh_ncpus THEN 1 ELSE 0)

(***************************************************************************)
(* C1: no reference is ever held by two callers at once (nor twice by one  *)
(* caller): two successful pops never return the same reference unless it  *)
(* was pushed in between.                                                  *)
(***************************************************************************)
NoDoubleAllocation == \A r \in Refs : Holders(r) <= 1

\* a caller holds r while another pop, which read r at a head that has since
\* moved on, is about to try its CAS
StalePopAtCas ==
    \E t1, t2 \in Threads :
        /\ t1 # t2
        /\ pc[t2] = "get_cas"
        /\ loc[t2].node # NULL
        /\ held[t1][loc[t2].node] = 1
        /\ slots[loc[t2].cpu].os_head # loc[t2].head

(***************************************************************************)
(* C2: conservation. The occupancies of the slots plus the references held *)
(* by callers add up to the object count, and every inserted reference is  *)
(* in exactly one place: a ticket of a slot or a caller's hands.           *)
(***************************************************************************)
Conservation ==
    /\ SumOver(CpusOf(oh), [c \in CpusOf(oh) |-> Occ(slots[c])])
         + SumOver(Refs, [r \in Refs |-> Holders(r)]) = oh.oh_nobjs
    /\ \A r \in Refs : InSlots(r) + Holders(r) = (IF r <= oh.oh_nobjs THEN 1 ELSE 0)

\* a push is in flight on a reserved ticket while another caller holds a
\* reference, after earlier pushes have completed
PushInFlightWhileHeld ==
    \E t1, t2 \in Threads :
        /\ t1 # t2
        /\ pc[t1] = "add_ent"
        /\ NHeld(t2) > 0
        /\ npush >= 2

(***************************************************************************)
(* C3: publication ordering. A pop that wins the CAS on head at value h    *)
(* returns the reference of the push that held ticket h: the ticket is     *)
(* published (no push still owns it), the entry still holds what the pop   *)
(* read, and that is an inserted, non-null reference.                      *)
(***************************************************************************)
PopWins(t) == pc[t] = "get_cas" /\ pc'[t] = "idle"

PublicationOrdering ==
    [][\A t \in Threads :
          PopWins(t) =>
              LET c == loc[t].cpu
                  h == loc[t].head
              IN  /\ Published(c, h)
                  /\ TicketRef(c, h) = loc[t].node
                  /\ loc[t].node \in 1 .. oh.oh_nobjs
                  /\ held'[t][loc[t].node] = held[t][loc[t].node] + 1]_vars

\* a caller holds a reference popped from a ticket that was handed out by a
\* push at steady state, not by the initial insert
PoppedPushedTicket ==
    \E c \in CpusOf(oh), t \in Threads :
        /\ slots[c].os_head > oh.oh_nents + InitCount(c)
        /\ NHeld(t) > 0

(***************************************************************************)
(* The pool as a caller that arrives now finds it, and what such a caller  *)
(* gets when it runs alone while every operation in flight stays stalled.  *)
(***************************************************************************)
Pool == [h |-> oh, s |-> slots]

\* the references a lone caller collects by popping from cpu until empty
RECURSIVE DrainSet(_, _, _)
DrainSet(p, cpu, fuel) ==
    LET r == PopSeq(p, cpu)
    IN  IF r.obj = NULL \/ fuel = 0 THEN {}
        ELSE {r.obj} \cup DrainSet(r.p, cpu, fuel - 1)

Obtainable(cpu) == DrainSet(Pool, cpu, oh.oh_nobjs)

Stalled(t) == pc[t] \in {"add_ent", "add_age"}

\* every ticket of slot c from its head up to k is published
ReadyUpTo(c, k) ==
    \A j \in Tickets(slots[c]) :
        (j - slots[c].os_head) % UintMod <= (k - slots[c].os_head) % UintMod
            => Published(c, j)

(***************************************************************************)
(* The scheduling under which a pop that has started keeps taking steps,   *)
(* whatever the other threads do: pushers may stall anywhere, for ever.    *)
(***************************************************************************)
PopRun(t) ==
    GetHead(t) \/ GetTail(t) \/ GetAge(t) \/ GetEnt(t) \/ GetCas(t) \/ GetReload(t)

SpecNmi == Init /\ [][Next]_vars /\ \A t \in Threads : WF_vars(PopRun(t))

(***************************************************************************)
(* C5: NMI-safe pop. A pop that finds the head position of a slot reserved *)
(* by a stalled pusher, and head unchanged on its reload, leaves the slot  *)
(* for the next one (or returns empty after the last); it never visits     *)
(* more than num_cores slots, and a pop that keeps taking steps returns.   *)
(***************************************************************************)
StalledAtHead(t) == InFlight(loc[t].cpu, loc[t].prev) # {}

Abandons(t) ==
    /\ slots' = slots
    /\ held' = held
    /\ IF loc[t].i + 1 < oh.oh_ncpus
       THEN /\ pc'[t] = "get_head"
            /\ loc'[t].i = loc[t].i + 1
            /\ loc'[t].cpu = (loc[t].cpu + 1) % oh.oh_ncpus
       ELSE pc'[t] = "idle"

NmiSafePop ==
    /\ [][\A t \in Threads :
             (pc[t] = "get_reload" /\ pc'[t] # "get_reload" /\ StalledAtHead(t))
                 => Abandons(t)]_vars
    /\ [](\A t \in Threads : pc[t] \in PopPcs => loc[t].i < oh.oh_ncpus)
    /\ \A t \in Threads : (pc[t] \in PopPcs) ~> (pc[t] = "idle")

\* a pop has left the slot whose head position a stalled pusher reserved and is
\* now at the next slot
PopLeftStalledSlot ==
    \E t, u \in Threads :
        /\ t # u
        /\ Stalled(u)
        /\ loc[u].tail = slots[loc[u].cpu].os_head
        /\ pc[t] = "get_head"
        /\ loc[t].i >= 1
        /\ loc[t].cpu0 = loc[u].cpu

(***************************************************************************)
(* C6 as stated: while a pusher is stalled between its reservation and its *)
(* publish, every published object, also one at a later position of the    *)
(* same slot, can still be obtained by pop.                                *)
(***************************************************************************)
StalledPusherBlocksOnlyItsPosition ==
    \A t \in Threads :
        Stalled(t) =>
            \A c \in CpusOf(oh) : \A k \in Tickets(slots[c]) :
                Published(c, k) => \A c0 \in CpusOf(oh) : TicketRef(c, k) \in Obtainable(c0)

(***************************************************************************)
(* C6 amended: a stalled pusher blocks the positions of its own slot from  *)
(* its ticket onward, never another slot or the pool. While it is stalled  *)
(* a pop obtains exactly the published objects that have no unpublished    *)
(* ticket before them in their slot, and pushes by other callers complete. *)
(***************************************************************************)
StalledPusherBlocksItsSlotFromTicketOn ==
    \A t \in Threads :
        Stalled(t) =>
            /\ \A c0 \in CpusOf(oh) :
                  Obtainable(c0) =
                      UNION {{TicketRef(c, k) : k \in {j \in Tickets(slots[c]) : ReadyUpTo(c, j)}} :
                             c \in CpusOf(oh)}
            /\ \A u \in Threads : \A r \in Refs : \A c0 \in CpusOf(oh) :
                  (u # t /\ pc[u] = "idle" /\ held[u][r] > 0)
                      => PushSeq(Pool, c0, r).rc = "ok"

\* a pusher is stalled on the head position of its slot, an object is published
\* at a later position of the same slot, another slot has an object ready, and
\* another caller holds a reference it may push
StalledWithLaterPublished ==
    \E t, u \in Threads : \E c \in CpusOf(oh) :
        /\ Stalled(t)
        /\ loc[t].tail = slots[loc[t].cpu].os_head
        /\ \E k \in Tickets(slots[loc[t].cpu]) : k # loc[t].tail /\ Published(loc[t].cpu, k)
        /\ c # loc[t].cpu
        /\ Occ(slots[c]) > 0
        /\ ReadyUpTo(c, slots[c].os_head)
        /\ u # t
        /\ pc[u] = "idle"
        /\ NHeld(u) > 0

(***************************************************************************)
(* C8: under the unconditional policy (object count <= per-slot capacity)  *)
(* a push takes exactly one ticket, on the slot of the caller's cpu, and   *)
(* goes straight from the reservation to the store and the publish: it     *)
(* visits no other slot, is never rejected and never retries.              *)
(***************************************************************************)
UnconditionalPushFirstAttempt ==
    /\ [](\A t \in Threads :
            (oh.oh_nobjs <= oh.oh_nents /\ pc[t] \in PushPcs)
                => /\ pc[t] \in {"add_inc", "add_ent", "add_age"}
                   /\ loc[t].cpu = loc[t].cpu0
                   /\ loc[t].i = 0)
    /\ [][\A t \in Threads :
             (oh.oh_nobjs <= oh.oh_nents /\ pc[t] \in PushPcs /\ pc'[t] # pc[t])
                 => /\ pc[t] = "add_inc"
                       => /\ pc'[t] = "add_ent"
                          /\ loc'[t].tail = slots[loc[t].cpu0].os_tail
                          /\ slots'[loc[t].cpu0].os_tail = slots[loc[t].cpu0].os_tail + 1
                    /\ pc[t] = "add_ent" => pc'[t] = "add_age"
                    /\ pc[t] = "add_age"
                       => /\ pc'[t] = "idle"
                          /\ slots'[loc[t].cpu0].ents[loc[t].tail % oh.oh_nents] = loc[t].obj
                          /\ slots'[loc[t].cpu0].ages[loc[t].tail % oh.oh_nents] = loc[t].tail
                    /\ pc[t] # "add_inc"
                       => slots'[loc[t].cpu0].os_tail = slots[loc[t].cpu0].os_tail]_vars

\* two unconditional pushes hold tickets of the same slot at the same time
TwoUnconditionalPushesInFlight ==
    \E t, u \in Threads :
        /\ t # u
        /\ oh.oh_nobjs <= oh.oh_nents
        /\ Stalled(t)
        /\ Stalled(u)
        /\ loc[t].cpu = loc[u].cpu

(***************************************************************************)
(* C9: under the bounded policy the object count never exceeds the total   *)
(* capacity, so whenever a caller has a reference to push some slot has    *)
(* room: the push of it succeeds (it is not rejected by every slot), and a *)
(* slot rejects a push only when the pusher saw it full.                   *)
(***************************************************************************)
BoundedPushFindsRoom ==
    /\ [](oh.oh_nobjs > oh.oh_nents =>
            /\ oh.oh_nobjs <= oh.oh_ncpus * oh.oh_nents
            /\ \A t \in Threads : \A r \in Refs :
                  held[t][r] > 0 =>
                      /\ \E c \in CpusOf(oh) : Occ(slots[c]) < slots[c].os_size
                      /\ \A c0 \in CpusOf(oh) : PushSeq(Pool, c0, r).rc = "ok")
    /\ [][\A t \in Threads :
             (pc[t] = "try_tail" /\ pc'[t] = "try_head")
                 => (slots[loc[t].cpu].os_tail - loc[t].head) % UintMod >= oh.oh_nents]_vars

\* a bounded push stands before a slot that is full while it still holds its
\* reference
BoundedPushAtFullSlot ==
    \E t \in Threads :
        /\ oh.oh_nobjs > oh.oh_nents
        /\ pc[t] = "try_tail"
        /\ held[t][loc[t].obj] > 0
        /\ loc[t].head = slots[loc[t].cpu].os_head
        /\ Occ(slots[loc[t].cpu]) = slots[loc[t].cpu].os_size

(***************************************************************************)
(* Nesting on one cpu: thread 1 is a task, every higher thread a handler   *)
(* (rs_tasklet_work: one pop, then a push of what it got) that preempts    *)
(* the threads below it at a step boundary and runs to completion on the   *)
(* cpu of the operation it interrupted.                                    *)
(***************************************************************************)
\* no handler above t is running or still has its reference to give back
NestOk(t) == \A u \in Threads : u > t => (pc[u] = "idle" /\ NHeld(u) = 0)

Preempted(t) == {u \in Threads : u < t /\ pc[u] # "idle"}

\* a handler starts on the cpu of the operation it preempts
StartsOnCpuOfPreempted(t) ==
    (pc[t] = "idle" /\ Preempted(t) # {})
        => loc'[t].cpu0 = loc[CHOOSE u \in Preempted(t) : \A v \in Preempted(t) : v <= u].cpu0

NestPop(t) ==
    /\ NestOk(t)
    /\ (t > 1 /\ pc[t] = "idle") => NHeld(t) = 0
    /\ Pop(t)
    /\ StartsOnCpuOfPreempted(t)

NestPush(t) ==
    /\ NestOk(t)
    /\ Push(t)
    /\ StartsOnCpuOfPreempted(t)

NextNest == \E t \in Threads : NestPop(t) \/ NestPush(t)

\* a handler that has started an operation and is not preempted goes on
HandlerRun(t) ==
    /\ NestOk(t)
    /\ pc[t] # "idle"
    /\ (Pop(t) \/ Push(t))

SpecNest == Init /\ [][NextNest]_vars /\ WF_vars(HandlerRun(NThreads))

(***************************************************************************)
(* C7: reentrancy. A pop or push of a handler that preempts a pop or push  *)
(* on the same cpu terminates, and once every operation has completed the  *)
(* pool is intact: each inserted reference is either held by one caller or *)
(* published at exactly one ticket, and every ticket is published.         *)
(***************************************************************************)
PublishedAt(r) ==
    SumOver(CpusOf(oh),
            [c \in CpusOf(oh) |->
                Cardinality({k \in Tickets(slots[c]) :
                                /\ slots[c].ages[k % oh.oh_nents] = k
                                /\ slots[c].ents[k % oh.oh_nents] = r})])

Reentrant ==
    /\ []((\A t \in Threads : pc[t] = "idle") =>
            /\ \A r \in Refs :
                  Holders(r) + PublishedAt(r) = (IF r <= oh.oh_nobjs THEN 1 ELSE 0)
            /\ \A c \in CpusOf(oh) : \A k \in Tickets(slots[c]) :
                  slots[c].ages[k % oh.oh_nents] = k)
    /\ (pc[NThreads] # "idle") ~> (pc[NThreads] = "idle")

\* a handler has run a pop and a push to completion while the pop it preempted
\* waits between its read of ents and its CAS on a head that has moved on
HandlerRanInsidePop ==
    /\ pc[1] = "get_cas"
    /\ slots[loc[1].cpu].os_head # loc[1].head
    /\ pc[NThreads] = "idle"
    /\ NHeld(NThreads) = 0
    /\ npush >= 1

(***************************************************************************)
(* Calls made one after the other by a single caller on a quiescent pool,  *)
(* on machines of 1 .. MaxCpus cpus.                                       *)
(***************************************************************************)
InitSeq ==
    /\ \E maxactive \in 0 .. ManyObjs, cpus \in 1 .. MaxCpus :
          LET p == InitRing(maxactive, cpus, maxactive)
          IN  oh = p.h /\ slots = p.s
    /\ pc = [t \in Threads |-> "idle"]
    /\ loc = [t \in Threads |-> NoLoc]
    /\ held = [t \in Threads |-> [r \in Refs |-> 0]]
    /\ npush = 0
    /\ last = NoLast
    /\ run = NoRun
    /\ life = NoLife
    /\ meter = FALSE

\* objpool_pop called on cpu c
SeqPop(c) ==
    /\ ~(run.rets # <<>> /\ run.cpu = c /\ Len(run.rets) > run.n0)
    /\ LET r == PopSeq(Pool, c)
       IN  /\ slots' = r.p.s
           /\ held' = IF r.obj = NULL THEN held ELSE [held EXCEPT ![1][r.obj] = @ + 1]
           /\ last' = [op |-> "pop", cpu |-> c, obj |-> r.obj,
                       rc |-> IF r.spin THEN "spin" ELSE "ok", path |-> r.path]
           /\ run' = IF run.rets # <<>> /\ run.cpu = c
                     THEN [run EXCEPT !.rets = Append(@, r.obj)]
                     ELSE [cpu |-> c, n0 |-> oh.oh_nobjs - NHeld(1), rets |-> <<r.obj>>]
    /\ UNCHANGED <<life, meter, oh, pc, loc, npush>>

\* objpool_push of a held reference called on cpu c
SeqPush(c, obj) ==
    /\ held[1][obj] > 0
    /\ npush < MaxPush
    /\ LET r == PushSeq(Pool, c, obj)
       IN  /\ slots' = r.p.s
           /\ held' = IF r.rc = "ok" THEN [held EXCEPT ![1][obj] = @ - 1] ELSE held
           /\ last' = [op |-> "push", cpu |-> c, obj |-> obj, rc |-> r.rc, path |-> r.path]
    /\ run' = NoRun
    /\ npush' = npush + 1
    /\ UNCHANGED <<life, meter, oh, pc, loc>>

NextSeq ==
    \E c \in CpusOf(oh) :
        \/ SeqPop(c)
        \/ \E obj \in Refs : SeqPush(c, obj)

SpecSeq == InitSeq /\ [][NextSeq]_vars

(***************************************************************************)
(* C4: drain completeness. From a quiescent pool holding N objects, the    *)
(* first N pops in a row from one cpu return N distinct inserted           *)
(* references and the (N+1)-th returns empty.                              *)
(***************************************************************************)
DrainComplete ==
    \A i \in 1 .. Len(run.rets) :
        IF i <= run.n0
        THEN /\ run.rets[i] \in 1 .. oh.oh_nobjs
             /\ \A j \in 1 .. (i - 1) : run.rets[j] # run.rets[i]
        ELSE run.rets[i] = NULL

\* a pool of several slots, filled unevenly by earlier pushes, has been drained
\* from one cpu and the pop after the last object has returned empty
DrainedToEmpty ==
    /\ oh.oh_ncpus > 1
    /\ npush > 0
    /\ run.n0 >= oh.oh_ncpus
    /\ Len(run.rets) = run.n0 + 1

(***************************************************************************)
(* C10: full-slot push. Under the bounded policy, a push called on a cpu   *)
(* whose slot is full while another slot has room leaves the full slot as  *)
(* it is and stores the reference, published, at the tail of the first     *)
(* slot with room in ascending cyclic order; no other slot changes.        *)
(***************************************************************************)
HasRoom(c) == Occ(slots[c]) < slots[c].os_size

\* the first slot with room after c, cyclically upwards
FirstRoom(c) ==
    LET k == CHOOSE k \in 1 .. (oh.oh_ncpus - 1) :
                 /\ HasRoom((c + k) % oh.oh_ncpus)
                 /\ \A j \in 1 .. (k - 1) : ~HasRoom((c + j) % oh.oh_ncpus)
    IN  (c + k) % oh.oh_ncpus

FullSlotPush ==
    [][(npush' = npush + 1 /\ oh.oh_nobjs > oh.oh_nents
          /\ Occ(slots[last'.cpu]) = slots[last'.cpu].os_size
          /\ \E c \in CpusOf(oh) : HasRoom(c))
         => LET d == FirstRoom(last'.cpu)
                t == slots[d].os_tail
            IN  /\ last'.rc = "ok"
                /\ held'[1][last'.obj] = held[1][last'.obj] - 1
                /\ \A c \in CpusOf(oh) : c # d => slots'[c] = slots[c]
                /\ slots'[d].os_head = slots[d].os_head
                /\ slots'[d].os_tail = t + 1
                /\ slots'[d].ents = [slots[d].ents EXCEPT ![t % oh.oh_nents] = last'.obj]
                /\ slots'[d].ages = [slots[d].ages EXCEPT ![t % oh.oh_nents] = t]]_vars

\* on three cpus a push met a full slot and was taken by the next one
PushWalkedPastFullSlot ==
    /\ oh.oh_ncpus = 3
    /\ oh.oh_nobjs > oh.oh_nents
    /\ last.op = "push"
    /\ last.rc = "ok"
    /\ Len(last.path) = 2

(***************************************************************************)
(* Counted work: the same threads and operations with the work of every    *)
(* operation in progress counted, on a one-cpu pool (unconditional push)   *)
(* and on the harness machine (bounded push).                              *)
(***************************************************************************)
InitWork ==
    /\ \E cfg \in {<<1, FewObjs>>, <<NCpus, ManyObjs>>} :
          LET p == InitRing(cfg[2], cfg[1], cfg[2])
          IN  oh = p.h /\ slots = p.s
    /\ pc = [t \in Threads |-> "idle"]
    /\ loc = [t \in Threads |-> NoLoc]
    /\ held = [t \in Threads |-> [r \in Refs |-> 0]]
    /\ npush = 0
    /\ last = NoLast
    /\ run = NoRun
    /\ life = NoLife
    /\ meter = TRUE

SpecWork == InitWork /\ [][Next]_vars

(***************************************************************************)
(* C11 as stated: no push or pop performs more than num_cores *            *)
(* per_slot_capacity per-attempt loop iterations (inner iterations summed  *)
(* over the slots it visits).                                              *)
(***************************************************************************)
WorkWithinCapacity ==
    \A t \in Threads : loc[t].iters <= oh.oh_ncpus * oh.oh_nents

(***************************************************************************)
(* C11 amended: the work of an operation is bounded by the interference it *)
(* meets, not by the capacity. A push or pop that has seen K updates of a  *)
(* head or tail by other operations since it started has performed at most *)
(* num_cores * (K + 1) per-attempt iterations, a pop at most num_cores + K; *)
(* with no update by others at most num_cores.                             *)
(***************************************************************************)
WorkWithinInterference ==
    \A t \in Threads :
        /\ loc[t].iters <= oh.oh_ncpus * (loc[t].intf + 1)
        /\ pc[t] \in PopPcs => loc[t].iters <= oh.oh_ncpus + loc[t].intf

\* a pop has gone round its inner loop more often than the pool has entries,
\* each time after another pop moved the head
PopBeyondCapacity ==
    \E t \in Threads :
        /\ pc[t] \in PopPcs
        /\ loc[t].iters > oh.oh_ncpus * oh.oh_nents
        /\ loc[t].intf >= loc[t].iters - oh.oh_ncpus
        /\ npush = MaxPush

(***************************************************************************)
(* The scheduling under which the threads, taken together, keep taking     *)
(* steps as long as a step is possible; no single thread is favoured.      *)
(***************************************************************************)
SpecFree == Init /\ [][Next]_vars /\ WF_vars(Next)

\* some push or pop returns
Completes == \E t \in Threads : pc[t] # "idle" /\ pc'[t] = "idle"

(***************************************************************************)
(* C12: lock-freedom. A pop goes round its inner loop again only after the *)
(* head of the slot moved on from the value it had read (another pop       *)
(* completed there); a bounded push goes round its CAS loop again only     *)
(* after the tail of the slot changed under it; as long as steps are taken *)
(* some operation keeps completing; and an operation that runs alone, the  *)
(* others standing still wherever they are, completes within num_cores     *)
(* slot visits.                                                            *)
(***************************************************************************)
LockFree ==
    /\ [][\A t \in Threads :
             /\ (pc[t] = "get_reload" /\ pc'[t] = "get_tail")
                    => /\ slots[loc[t].cpu].os_head # loc[t].prev
                       /\ (slots[loc[t].cpu].os_head - loc[t].prev) % UintMod <= npush + oh.oh_nobjs
                       /\ loc'[t].cpu = loc[t].cpu
             /\ (pc[t] = "try_cas" /\ pc'[t] = "try_head")
                    => /\ slots[loc[t].cpu].os_tail # loc[t].tail
                       /\ loc'[t].cpu = loc[t].cpu]_vars
    /\ [](/\ \A c \in CpusOf(oh) :
               /\ ~PopSeq(Pool, c).spin
               /\ Len(PopSeq(Pool, c).path) <= oh.oh_ncpus
           /\ \A t \in Threads : \A r \in Refs : \A c0 \in CpusOf(oh) :
               (pc[t] = "idle" /\ held[t][r] > 0)
                   => /\ PushSeq(Pool, c0, r).rc = "ok"
                      /\ Len(PushSeq(Pool, c0, r).path) <= oh.oh_ncpus)
    /\ (<>[](\A t \in Threads : pc[t] = "idle") \/ []<><<Completes>>_vars)

\* a pop is back at the top of its inner loop on the same slot, having
\* reloaded a head that another pop had moved on
PopRetriesAfterOtherPop ==
    \E t \in Threads :
        /\ pc[t] = "get_tail"
        /\ loc[t].prev >= oh.oh_nents
        /\ loc[t].head # loc[t].prev
        /\ loc[t].head # slots[loc[t].cpu].os_tail

(***************************************************************************)
(* Pools as the harness builds them, the pool that holds no object         *)
(* included, under concurrent callers.                                     *)
(***************************************************************************)
InitSearch ==
    /\ \E maxactive \in {0, FewObjs, ManyObjs} :
          LET p == InitRing(maxactive, NCpus, maxactive)
          IN  oh = p.h /\ slots = p.s
    /\ pc = [t \in Threads |-> "idle"]
    /\ loc = [t \in Threads |-> NoLoc]
    /\ held = [t \in Threads |-> [r \in Refs |-> 0]]
    /\ npush = 0
    /\ last = NoLast
    /\ run = NoRun
    /\ life = NoLife
    /\ meter = FALSE

SpecSearch == InitSearch /\ [][Next]_vars

\* the pop of thread t returns without an object
ReturnsEmpty(t) == pc[t] \in PopPcs /\ pc'[t] = "idle" /\ held'[t] = held[t]

\* the pop of thread t gives up the slot it is at, for the next one or for good
LeavesSlot(t) ==
    /\ pc[t] \in PopPcs
    /\ \/ ReturnsEmpty(t)
       \/ pc'[t] = "get_head" /\ loc'[t].i = loc[t].i + 1

\* the order of the search, its length, and what it returns when it finds
SearchOrder ==
    /\ [](\A t \in Threads :
            pc[t] \in PopPcs
                => /\ loc[t].i < oh.oh_ncpus
                   /\ loc[t].cpu = (loc[t].cpu0 + loc[t].i) % oh.oh_ncpus)
    /\ [][\A t \in Threads :
             /\ (pc[t] \in PopPcs /\ pc'[t] = "idle" /\ ~ReturnsEmpty(t))
                    => /\ pc[t] = "get_cas"
                       /\ loc[t].node # NULL
                       /\ held'[t][loc[t].node] = held[t][loc[t].node] + 1
             /\ ReturnsEmpty(t) => loc[t].i = oh.oh_ncpus - 1
             /\ (pc[t] \in PopPcs /\ pc'[t] \in PopPcs /\ loc'[t].cpu # loc[t].cpu)
                    => LeavesSlot(t)]_vars
    /\ [](oh.oh_nobjs = 0 =>
            \A t \in Threads : pc[t] \in {"idle", "get_head", "get_tail"})

(***************************************************************************)
(* C13 as stated: pop visits the slots in cyclic order from the caller's   *)
(* cpu, each at most once, returns the first object it obtains, and        *)
(* returns empty only after visiting every slot once with each slot        *)
(* observed empty (here: the slot it returns from is observed empty).      *)
(***************************************************************************)
PopSearchAllObservedEmpty ==
    /\ SearchOrder
    /\ [][\A t \in Threads :
             ReturnsEmpty(t)
                 => /\ pc[t] = "get_tail"
                    /\ loc[t].head = slots[loc[t].cpu].os_tail]_vars

(***************************************************************************)
(* C13 amended: pop visits the slots in cyclic order from the caller's     *)
(* cpu, each at most once, and returns the first object it obtains; it     *)
(* gives up a slot, and returns empty after the last, only when it         *)
(* observed the slot empty or found the entry at its head not yet          *)
(* published by the push that reserved it, with the head unchanged on the  *)
(* reload; on a pool holding no objects it returns empty after one pass.   *)
(***************************************************************************)
PopSearchEmptyOrUnpublished ==
    /\ SearchOrder
    /\ [][\A t \in Threads :
             /\ LeavesSlot(t)
                    => \/ /\ pc[t] = "get_tail"
                          /\ loc[t].head = slots[loc[t].cpu].os_tail
                       \/ /\ pc[t] = "get_reload"
                          /\ slots[loc[t].cpu].os_head = loc[t].prev
                          /\ loc[t].head = loc[t].prev
             /\ (pc[t] = "get_age" /\ pc'[t] = "get_reload"
                   /\ slots[loc[t].cpu].os_head = loc[t].head)
                    => InFlight(loc[t].cpu, loc[t].head) # {}
             /\ (pc[t] = "get_cas" /\ pc'[t] = "get_reload")
                    => slots[loc[t].cpu].os_head # loc[t].prev]_vars

\* a pop stands at the last slot of its pass, which holds a reserved entry no
\* push has published yet, and is about to return empty
PopReturnsEmptyFromBusySlot ==
    \E t \in Threads :
        /\ pc[t] = "get_reload"
        /\ loc[t].i = oh.oh_ncpus - 1
        /\ slots[loc[t].cpu].os_head = loc[t].prev
        /\ Occ(slots[loc[t].cpu]) > 0

(***************************************************************************)
(* Teardown: objpool_fini drains every slot through the pop primitive and  *)
(* reports each reference, then the bulk buffer, to the release callback.  *)
(***************************************************************************)
\* the first object of the user buffer is taken for a foreign one
IsInPoolAfterFirst(obj, h) ==
    obj # NULL /\ obj > h.oh_pool /\ obj < h.oh_pool + h.oh_sz_pool

\* objpool_is_inpool: whether this object is from the user buffer
objpool_is_inpool(obj, h) ==
    obj # NULL /\ obj >= h.oh_pool /\ obj < h.oh_pool + h.oh_sz_pool

\* objpool_is_inslot: whether this object is pre-allocated along with a slot
objpool_is_inslot(obj, h) ==
    \E i \in DOMAIN h.oh_slots :
        obj # NULL /\ obj >= h.oh_slots[i] /\ obj < h.oh_slots[i] + h.oh_sz_slots[i]

\* release(context, obj, user, 1) for a drained reference
ElementCall(obj, h) ==
    [obj |-> obj,
     user |-> IF ~objpool_is_inpool(obj, h) /\ ~objpool_is_inslot(obj, h) THEN 1 ELSE 0,
     element |-> 1]

\* one object is taken from the slot and the rest left behind
DrainOnce(os, h, calls) ==
    LET r == TryGetSlotSeq(os)
    IN  IF r.obj = NULL THEN [os |-> os, calls |-> calls]
        ELSE [os |-> r.os, calls |-> Append(calls, ElementCall(r.obj, h))]

\* do { obj = __objpool_try_get_slot(slot); ... } while (obj)
RECURSIVE DrainSlot(_, _, _)
DrainSlot(os, h, calls) ==
    LET r == TryGetSlotSeq(os)
    IN  IF r.obj = NULL THEN [os |-> os, calls |-> calls]
        ELSE DrainSlot(r.os, h, Append(calls, ElementCall(r.obj, h)))

\* the loop of objpool_fini over the slots, from cpu i on
RECURSIVE FiniLoop(_, _, _)
FiniLoop(p, i, calls) ==
    IF i >= p.h.oh_ncpus THEN [p |-> p, calls |-> calls]
    ELSE LET d == DrainSlot(p.s[i], p.h, calls)
         IN  FiniLoop([p EXCEPT !.s[i] = d.os], i + 1, d.calls)

\* the callback invocations as events
CallEvents(calls) ==
    [m \in 1 .. Len(calls) |->
        Event(IF calls[m].element = 1 THEN "element" ELSE "buffer", calls[m].obj)]

\* the slots are released before the buffer is reported
FiniFreesFirst(p) ==
    IF p.h.oh_slots = <<>> THEN [p |-> p, calls |-> <<>>, trace |-> <<>>]
    ELSE LET d == FiniLoop(p, 0, <<>>)
             b == IF p.h.oh_pool # NULL
                  THEN <<[obj |-> p.h.oh_pool, user |-> 1, element |-> 0]>>
                  ELSE <<>>
             f == __objpool_fini_percpu_slots(
                      [d.p.h EXCEPT !.oh_pool = NULL, !.oh_sz_pool = 0])
         IN  [p |-> [d.p EXCEPT !.h = f.h],
              calls |-> d.calls \o b,
              trace |-> CallEvents(d.calls) \o f.trace \o CallEvents(b)]

\* objpool_fini with a release callback; calls lists the callback's
\* invocations, trace the invocations and the releases in their order
objpool_fini(p) ==
    IF p.h.oh_slots = <<>> THEN [p |-> p, calls |-> <<>>, trace |-> <<>>]
    ELSE LET d == FiniLoop(p, 0, <<>>)
             b == IF p.h.oh_pool # NULL
                  THEN <<[obj |-> p.h.oh_pool, user |-> 1, element |-> 0]>>
                  ELSE <<>>
             f == __objpool_fini_percpu_slots(
                      [d.p.h EXCEPT !.oh_pool = NULL, !.oh_sz_pool = 0])
         IN  [p |-> [d.p EXCEPT !.h = f.h],
              calls |-> d.calls \o b,
              trace |-> CallEvents(d.calls) \o CallEvents(b) \o f.trace]

(***************************************************************************)
(* Construction and teardown by one caller: objpool_init with any count,   *)
(* object size and balance mode, then objpool_populate and                 *)
(* objpool_add_scattered in any order, then objpool_fini.                  *)
(***************************************************************************)
Counts == {0, FewObjs, ManyObjs, BulkObjs}

ObjSizes == {0, SizeofPtr}

\* the calls of objpool_populate tried: <<buf, size, objsz>>
PopulateArgs ==
    {<<NULL, ManyObjs * SizeofPtr, SizeofPtr>>,                  \* no buffer
     <<BufAddr, ManyObjs * SizeofPtr, 0>>,                       \* no stride
     <<BufAddr, SizeofPtr, L1_CACHE_BYTES>>,                     \* size < stride
     <<BufAddr, ManyObjs * SizeofPtr, SizeofPtr>>,               \* a few objects
     <<BufAddr, ManyObjs * SizeofPtr + SizeofAge, SizeofPtr>>,   \* with a remainder
     <<BufAddr, BulkObjs * L1_CACHE_BYTES, L1_CACHE_BYTES>>,     \* a large buffer
     <<BufAddr, BulkObjs * L1_CACHE_BYTES, SizeofPtr>>,          \* more than any pool holds
     <<BufAddr + SizeofAge, ManyObjs * SizeofPtr, SizeofPtr>>,   \* buffer off the word
     <<BufAddr, ManyObjs * SizeofPtr, SizeofPtr + SizeofAge>>}   \* stride off the word

\* the references the caller allocates one by one for objpool_add_scattered
ExtRefs == 1 .. MaxExt

InitBuild ==
    /\ \E cpus \in 1 .. MaxCpus, nobjs \in Counts, objsz \in ObjSizes, asym \in {0, 1} :
          LET r == objpool_init(nobjs, objsz, asym, cpus, NoFault)
          IN  /\ oh = r.h
              /\ slots = r.s
              /\ life = [phase |-> "init", count |-> nobjs, asym |-> asym,
                         order |-> r.order, calls |-> <<>>, trace |-> InitTrace(cpus),
                         finis |-> 0]
    /\ pc = [t \in Threads |-> "idle"]
    /\ loc = [t \in Threads |-> NoLoc]
    /\ held = [t \in Threads |-> [r \in Refs |-> 0]]
    /\ npush = 0
    /\ last = [NoLast EXCEPT !.op = "init"]
    /\ run = NoRun
    /\ meter = FALSE

\* objpool_populate(oh, buf, size, objsz, NULL)
BuildPopulate(buf, size, objsz) ==
    /\ life.phase = "init"
    /\ LET r == objpool_populate(Pool, buf, size, objsz, NoFault)
       IN  /\ oh' = r.p.h
           /\ slots' = r.p.s
           /\ life' = [life EXCEPT !.order = life.order \o r.order]
           /\ last' = [op |-> "populate", cpu |-> 0, obj |-> buf, rc |-> r.rc,
                       path |-> <<size, objsz>>]
    /\ UNCHANGED <<pc, loc, held, npush, run, meter>>

\* the external references added so far
NExt == Cardinality({m \in 1 .. Len(life.order) : life.order[m] \in ExtRefs})

\* objpool_add_scattered(obj, oh) with NULL or the caller's next reference
BuildAddScattered(obj) ==
    /\ life.phase = "init"
    /\ obj \in {NULL, NExt + 1}
    /\ LET r == objpool_add_scattered(Pool, obj)
       IN  /\ oh' = r.p.h
           /\ slots' = r.p.s
           /\ life' = [life EXCEPT !.order = IF r.rc = "ok" THEN Append(life.order, obj)
                                              ELSE life.order]
           /\ last' = [op |-> "add_scattered", cpu |-> 0, obj |-> obj, rc |-> r.rc,
                       path |-> <<>>]
    /\ UNCHANGED <<pc, loc, held, npush, run, meter>>

\* objpool_fini(oh, context, release)
BuildFini ==
    /\ life.finis < MaxFini
    /\ LET r == objpool_fini(Pool)
       IN  /\ oh' = r.p.h
           /\ slots' = r.p.s
           /\ life' = [life EXCEPT !.phase = IF life.phase = "failed" THEN "failed"
                                              ELSE "dead",
                                   !.calls = life.calls \o r.calls,
                                   !.trace = life.trace \o r.trace,
                                   !.finis = life.finis + 1]
           /\ last' = [op |-> "fini", cpu |-> 0, obj |-> NULL, rc |-> "ok", path |-> <<>>]
    /\ UNCHANGED <<pc, loc, held, npush, run, meter>>

NextBuild ==
    \/ \E a \in PopulateArgs : BuildPopulate(a[1], a[2], a[3])
    \/ \E obj \in {NULL} \cup ExtRefs : BuildAddScattered(obj)
    \/ BuildFini

SpecBuild == InitBuild /\ [][NextBuild]_vars
(***************************************************************************)
(* Where construction leaves the objects.                                  *)
(***************************************************************************)
\* the slot of cpu c holds the reference obj
HoldsRef(c, obj) ==
    \E k \in Tickets(slots[c]) : slots[c].ents[SlotIdx(slots[c], k)] = obj

\* the m-th inserted object, m counted from 0 over all insertions
Inserted(m) == life.order[m + 1]

\* objects embedded in the slot of cpu c by objpool_init(count, ...)
EmbeddedIn(c) ==
    (life.count \div oh.oh_ncpus) + (IF c < life.count % oh.oh_ncpus THEN 1 ELSE 0)

\* objects embedded in the slots of the cpus below c
EmbeddedBelow(c) == SumOver(0 .. (c - 1), [i \in 0 .. (c - 1) |-> EmbeddedIn(i)])

Building == life.phase = "init"

(***************************************************************************)
(* C14 as stated: across embedded initialisation, populate and             *)
(* add_scattered, the k-th inserted object (k counted from 0 over all      *)
(* insertions) lies in slot k mod num_cores.                               *)
(***************************************************************************)
ScatterKthInSlotKModCores ==
    Building =>
        \A m \in 0 .. (Len(life.order) - 1) :
            HoldsRef(m % oh.oh_ncpus, Inserted(m))

(***************************************************************************)
(* C14: populate and add_scattered place the object inserted when the pool *)
(* counts k objects in slot k mod num_cores; embedded initialisation fills *)
(* the slots one after the other, slot i receiving floor(count/num_cores)  *)
(* objects and one more when i < count mod num_cores.  Either way the slot *)
(* occupancies differ by at most one after population, and 5 add_scattered *)
(* calls on 2 cores leave 3 objects in slot 0 and 2 in slot 1.             *)
(***************************************************************************)
ScatterBalanced ==
    Building =>
        /\ Len(life.order) = oh.oh_nobjs
        /\ \A m \in 0 .. (Len(life.order) - 1) :
              IF objpool_is_inslot(Inserted(m), oh)
              THEN \E c \in CpusOf(oh) :
                      /\ EmbeddedBelow(c) <= m
                      /\ m < EmbeddedBelow(c) + EmbeddedIn(c)
                      /\ HoldsRef(c, Inserted(m))
              ELSE HoldsRef(m % oh.oh_ncpus, Inserted(m))
        /\ \A c \in CpusOf(oh) : Occ(slots[c]) = InitCount(c)
        /\ \A c, d \in CpusOf(oh) :
              Occ(slots[c]) - Occ(slots[d]) \in {0 - 1, 0, 1}
        /\ (oh.oh_ncpus = 2 /\ life.order = <<1, 2, 3, 4, 5>>) =>
              (Occ(slots[0]) = 3 /\ Occ(slots[1]) = 2)

\* five objects embedded on 2 cores, the second of them in slot 0, then one
\* reference added, which lands in slot 5 mod 2
EmbeddedThenScattered ==
    /\ Building
    /\ oh.oh_ncpus = 2
    /\ Len(life.order) = 6
    /\ \A m \in 0 .. 4 : objpool_is_inslot(Inserted(m), oh)
    /\ HoldsRef(0, Inserted(1))
    /\ ~objpool_is_inslot(Inserted(5), oh)
    /\ HoldsRef(1, Inserted(5))
    /\ last.op = "add_scattered" /\ last.rc = "ok"
\* a reference carved off the bulk buffer, by its address
FromBulk(obj) == obj >= BufAddr /\ obj < HeapBase

\* the references objpool_populate inserted, in their order of insertion
BulkRefs == SelectSeq(life.order, FromBulk)

Min(a, b) == IF a < b THEN a ELSE b

\* the pool was torn down by objpool_fini
Dead == life.phase = "dead"

\* the invocations of the release callback with the given element flag
CallsWith(element) ==
    Cardinality({m \in 1 .. Len(life.calls) : life.calls[m].element = element})

\* the state right after objpool_populate(buf, size, objsz) returned 0 on a
\* pool without embedded objects
Populated == Building /\ last.op = "populate" /\ last.rc = "ok" /\ oh.oh_in_slot = 0

(***************************************************************************)
(* C15 as stated: on a pool initialised with count = 0 and no embedded     *)
(* objects, populate(buf, len, stride) inserts floor(len / stride)         *)
(* references.                                                             *)
(***************************************************************************)
PopulateInsertsLenDivStride ==
    (Populated /\ life.count = 0) =>
        Len(BulkRefs) = last.path[1] \div last.path[2]

(***************************************************************************)
(* C15: on a pool without embedded objects, populate(buf, len, stride)     *)
(* inserts the references buf, buf + stride, ... round-robin over the      *)
(* slots, floor(len / stride) of them or as many as the capacity fixed at  *)
(* init (num_cores * per_slot_capacity) still admits, whichever is less.   *)
(* On 2 cores with len = 1024 and stride = 64 a pool initialised with      *)
(* count = 16 takes 16 references, 8 in each slot, and fini then reports   *)
(* 16 element calls plus 1 buffer call; a pool initialised with count = 0  *)
(* has capacity 8 and takes 8 references, 4 in each slot, and fini reports *)
(* 8 element calls plus 1 buffer call.                                     *)
(***************************************************************************)
PopulateFillsToCapacity ==
    /\ Populated =>
          /\ Len(BulkRefs) = Min(last.path[1] \div last.path[2],
                                 oh.oh_ncpus * oh.oh_nents - NExt)
          /\ \A j \in 0 .. (Len(BulkRefs) - 1) :
                /\ BulkRefs[j + 1] = last.obj + j * last.path[2]
                /\ Inserted(NExt + j) = BulkRefs[j + 1]
                /\ HoldsRef((NExt + j) % oh.oh_ncpus, BulkRefs[j + 1])
    /\ (Populated /\ oh.oh_ncpus = 2 /\ NExt = 0 /\ last.path = <<1024, 64>>) =>
          /\ life.count = 16 =>
                Len(BulkRefs) = 16 /\ Occ(slots[0]) = 8 /\ Occ(slots[1]) = 8
          /\ life.count = 0 =>
                Len(BulkRefs) = 8 /\ Occ(slots[0]) = 4 /\ Occ(slots[1]) = 4
    /\ (Dead /\ oh.oh_in_slot = 0 /\ NExt = 0 /\ Len(BulkRefs) > 0) =>
          /\ CallsWith(1) = Len(BulkRefs)
          /\ CallsWith(0) = 1
          /\ Len(life.calls) = Len(BulkRefs) + 1

\* 2 cores, count = 16, 16 references from a buffer of 1024 bytes, then fini
BulkOfSixteenTornDown ==
    /\ Dead
    /\ oh.oh_ncpus = 2 /\ oh.oh_in_slot = 0 /\ life.count = 16
    /\ Len(life.order) = 16 /\ Len(BulkRefs) = 16
    /\ BulkRefs[16] = BufAddr + 15 * 64
    /\ CallsWith(1) = 16 /\ CallsWith(0) = 1
\* the pool holds num_cores * per_slot_capacity objects
AtCapacity == oh.oh_nobjs = oh.oh_ncpus * oh.oh_nents

\* this step is a call objpool_populate(buf, size, objsz)
PopulateCall(buf, size, objsz) ==
    /\ last'.op = "populate"
    /\ last'.obj = buf
    /\ last'.path = <<size, objsz>>

(***************************************************************************)
(* C16: populate returns InvalidArgument when a bulk buffer is already     *)
(* recorded, the buffer is null, the stride is zero or len < stride, and   *)
(* then it inserts no reference and records no buffer; it returns NotFound *)
(* and records no buffer when the pool is already at capacity, so that not *)
(* a single object could be inserted.                                      *)
(***************************************************************************)
PopulateErrors ==
    [][\A a \in PopulateArgs :
          PopulateCall(a[1], a[2], a[3]) =>
              /\ (oh.oh_pool # NULL \/ a[1] = NULL \/ a[3] = 0 \/ a[2] < a[3]) =>
                    /\ last'.rc = "EINVAL"
                    /\ slots' = slots /\ oh' = oh /\ life' = life
              /\ (/\ oh.oh_pool = NULL /\ a[1] # NULL /\ a[3] # 0 /\ a[2] >= a[3]
                  /\ oh.oh_objsz \in {0, a[3]}
                  /\ AtCapacity) =>
                    /\ last'.rc = "ENOENT"
                    /\ slots' = slots /\ oh' = oh /\ life' = life
              /\ last'.rc = "ENOENT" =>
                    AtCapacity /\ oh'.oh_pool = NULL /\ slots' = slots
       ]_vars

\* a second buffer was refused and the recorded one kept
PopulateRefusedSecondBuffer ==
    /\ Building
    /\ last.op = "populate" /\ last.rc = "EINVAL"
    /\ last.obj # NULL /\ last.path[2] # 0 /\ last.path[1] >= last.path[2]
    /\ oh.oh_pool # NULL /\ oh.oh_pool # last.obj
    /\ Len(BulkRefs) > 0
\* the buffer or the stride of this call is off the machine word
Misaligned(buf, objsz) == buf % SizeofPtr # 0 \/ objsz % SizeofPtr # 0

(***************************************************************************)
(* C17: populate refuses a misaligned buffer or a stride that is not a     *)
(* multiple of the word size: it returns an error and inserts no           *)
(* reference.                                                              *)
(***************************************************************************)
PopulateRefusesMisaligned ==
    [][\A a \in PopulateArgs :
          (PopulateCall(a[1], a[2], a[3]) /\ Misaligned(a[1], a[3])) =>
              /\ last'.rc # "ok"
              /\ slots' = slots
              /\ oh'.oh_nobjs = oh.oh_nobjs
       ]_vars
\* this step is a call objpool_add_scattered(obj, oh)
AddScatteredCall(obj) == last'.op = "add_scattered" /\ last'.obj = obj

(***************************************************************************)
(* C18: add_scattered returns InvalidArgument, leaving every slot and the  *)
(* object count unchanged, exactly when the reference is null or the pool  *)
(* already holds num_cores * per_slot_capacity objects; otherwise it       *)
(* inserts the reference and increments the count.  Hence init(count,      *)
(* objsz = 0) followed by count add_scattered calls succeeds every time.   *)
(***************************************************************************)
AddScatteredErrors ==
    [][\A obj \in {NULL} \cup ExtRefs :
          AddScatteredCall(obj) =>
              LET c == oh.oh_nobjs % oh.oh_ncpus
                  t == slots[c].os_tail
              IN  /\ last'.rc = "EINVAL" <=> (obj = NULL \/ AtCapacity)
                  /\ last'.rc = "EINVAL" => (slots' = slots /\ oh' = oh)
                  /\ last'.rc # "EINVAL" =>
                        /\ last'.rc = "ok"
                        /\ oh'.oh_nobjs = oh.oh_nobjs + 1
                        /\ slots'[c].os_tail = t + 1
                        /\ slots'[c].os_head = slots[c].os_head
                        /\ slots'[c].ents[SlotIdx(slots[c], t)] = obj
                        /\ slots'[c].ages[SlotIdx(slots[c], t)] = t
                        /\ \A d \in CpusOf(oh) \ {c} : slots'[d] = slots[d]
                  /\ (obj # NULL /\ oh.oh_in_slot = 0 /\ oh.oh_nobjs < life.count) =>
                        last'.rc = "ok"
       ]_vars

\* a reference was refused by a pool that earlier calls had filled
AddScatteredRefusedAtCapacity ==
    /\ Building
    /\ last.op = "add_scattered" /\ last.rc = "EINVAL" /\ last.obj # NULL
    /\ AtCapacity
    /\ NExt >= oh.oh_nents
    /\ ~HoldsRef(oh.oh_nobjs % oh.oh_ncpus, last.obj)
(***************************************************************************)
(* A pool filled in one of the population modes, used by concurrent        *)
(* callers and torn down by objpool_fini once every caller has returned    *)
(* and pushed back what it popped.                                         *)
(***************************************************************************)
PoolKinds == {"scattered", "embedded", "populated", "mixed"}

\* k calls of objpool_add_scattered with the references 1 .. k
RECURSIVE AddMany(_, _)
AddMany(p, k) == IF k = 0 THEN p ELSE AddScattered(AddMany(p, k - 1), k)

\* a pool of n objects of the given kind, and its objects in insertion order;
\* the pool that objpool_init leaves is computed once and handed on as a value
BuildPool(kind, n) ==
    CASE kind = "scattered" ->
            [p |-> InitRing(n, NCpus, n), order |-> [k \in 1 .. n |-> k]]
      [] kind = "embedded" ->
            LET r == objpool_init(n, SizeofPtr, 0, NCpus, NoFault)
            IN  [p |-> [h |-> r.h, s |-> r.s], order |-> r.order]
      [] kind = "populated" ->
            CHOOSE b \in {LET r == objpool_populate(p0, BufAddr, n * SizeofPtr, SizeofPtr,
                                                   NoFault)
                         IN  [p |-> r.p, order |-> r.order] :
                             p0 \in {PoolInit(n, 0, NCpus)}} : TRUE
      [] kind = "mixed" ->
            CHOOSE b \in {LET r == objpool_populate(p1, BufAddr, (n - 1) * SizeofPtr,
                                                   SizeofPtr, NoFault)
                         IN  [p |-> r.p, order |-> <<1>> \o r.order] :
                             p1 \in {AddMany(p0, 1) : p0 \in {PoolInit(n, 0, NCpus)}}} : TRUE

InitFini ==
    /\ \E kind \in PoolKinds, n \in {FewObjs, ManyObjs} :
          \E b \in {BuildPool(kind, n)} :
              /\ oh = b.p.h
              /\ slots = b.p.s
              /\ life = [phase |-> "live", count |-> n, asym |-> 0, order |-> b.order,
                         calls |-> <<>>, trace |-> InitTrace(NCpus), finis |-> 0]
              /\ held = [t \in Threads |->
                            [r \in {b.order[m] : m \in 1 .. Len(b.order)} |-> 0]]
    /\ pc = [t \in Threads |-> "idle"]
    /\ loc = [t \in Threads |-> NoLoc]
    /\ npush = 0
    /\ last = NoLast
    /\ run = NoRun
    /\ meter = FALSE

Live == life.phase = "live"

\* every caller has returned and holds nothing
Quiescent == \A t \in Threads : pc[t] = "idle" /\ NHeld(t) = 0

LivePop(t) == Live /\ Pop(t)

LivePush(t) == Live /\ Push(t)

\* objpool_fini(oh, context, release) on the quiescent pool
Fini ==
    /\ Live
    /\ Quiescent
    /\ LET r == objpool_fini(Pool)
       IN  /\ oh' = r.p.h
           /\ slots' = r.p.s
           /\ life' = [life EXCEPT !.phase = "dead", !.calls = r.calls,
                                   !.trace = life.trace \o r.trace,
                                   !.finis = life.finis + 1]
    /\ last' = [op |-> "fini", cpu |-> 0, obj |-> NULL, rc |-> "ok", path |-> <<>>]
    /\ UNCHANGED <<pc, loc, held, npush, run, meter>>

NextFini ==
    \/ \E t \in Threads : LivePop(t) \/ LivePush(t)
    \/ Fini

SpecFini == InitFini /\ [][NextFini]_vars

\* the objects inserted into the pool
Objects == {life.order[m] : m \in 1 .. Len(life.order)}

\* the addresses reported by the element calls of the release callback
ElementAddrs == {life.calls[m].obj : m \in {k \in 1 .. Len(life.calls) : life.calls[k].element = 1}}

(***************************************************************************)
(* C19: after init and insertion of N objects and any history of           *)
(* concurrent push/pop that ended with every reference pushed back, fini   *)
(* invokes the release callback exactly once per object, no address twice  *)
(* (N element calls), plus exactly one more call for the bulk buffer if    *)
(* and only if populate recorded one.                                      *)
(***************************************************************************)
TeardownCount ==
    [][(Live /\ Dead') =>
          /\ Len(life.order) = life.count
          /\ CallsWith(1)' = life.count
          /\ ElementAddrs' = Objects
          /\ CallsWith(0)' = (IF oh.oh_pool # NULL THEN 1 ELSE 0)
          /\ Len(life'.calls) = life.count + (IF oh.oh_pool # NULL THEN 1 ELSE 0)
          /\ oh.oh_pool # NULL <=> (\E obj \in Objects : FromBulk(obj))
       ]_vars

\* a populated pool torn down after pushes and pops that moved its objects
TornDownAfterChurn ==
    /\ Dead
    /\ npush = MaxPush
    /\ life.count = ManyObjs
    /\ Objects = {BufAddr + j * SizeofPtr : j \in 0 .. (ManyObjs - 1)}
    /\ Len(life.calls) = ManyObjs + 1
    /\ \E m \in 1 .. ManyObjs : life.calls[m].obj # life.calls[1].obj + (m - 1) * SizeofPtr
\* an object embedded in a slot by objpool_init, by its address
FromSlot(obj) == obj >= HeapBase

\* the element calls of the release callback
ElementCalls == {m \in 1 .. Len(life.calls) : life.calls[m].element = 1}

\* the buffer calls of the release callback
BufferCalls == {m \in 1 .. Len(life.calls) : life.calls[m].element = 0}

(***************************************************************************)
(* C20 as stated: in every element call made by fini, is_external is true  *)
(* if and only if the reference came via populate or add_scattered, and is *)
(* false only for objects embedded in a slot.                              *)
(***************************************************************************)
ExternalUnlessEmbedded ==
    Dead =>
        \A m \in ElementCalls :
            life.calls[m].user = 1 <=> ~FromSlot(life.calls[m].obj)

(***************************************************************************)
(* C20: in every element call made by fini, is_element is true and         *)
(* is_external is true if and only if the reference lies neither in the    *)
(* bulk buffer nor in a slot, i.e. it came via add_scattered (it is false  *)
(* for the objects carved off the populate buffer and for the objects      *)
(* embedded in a slot); the single buffer call has is_external = true and  *)
(* is_element = false.                                                     *)
(***************************************************************************)
ExternalOnlyScattered ==
    Dead =>
        /\ \A m \in 1 .. Len(life.calls) : life.calls[m].element \in {0, 1}
        /\ \A m \in ElementCalls :
              /\ life.calls[m].obj \in Objects
              /\ life.calls[m].user =
                    (IF FromBulk(life.calls[m].obj) \/ FromSlot(life.calls[m].obj)
                     THEN 0 ELSE 1)
        /\ \A m \in BufferCalls :
              /\ life.calls[m].user = 1
              /\ life.calls[m].obj = BufAddr
              /\ m = Len(life.calls)
        /\ Cardinality(BufferCalls) <= 1

\* a pool holding one scattered reference and references carved off a buffer
\* was torn down: one call with is_external, several without, one buffer call
MixedPoolTornDown ==
    /\ Dead
    /\ npush > 0
    /\ \E m \in ElementCalls : life.calls[m].user = 1 /\ life.calls[m].obj = 1
    /\ \E m \in ElementCalls : life.calls[m].user = 0 /\ life.calls[m].obj = BufAddr
    /\ Cardinality(ElementCalls) = ManyObjs
    /\ Cardinality(BufferCalls) = 1
(***************************************************************************)
(* The order of callbacks and releases.                                    *)
(***************************************************************************)
\* the positions of the trace holding an event of one of the given kinds
Positions(evs) == {m \in 1 .. Len(life.trace) : life.trace[m].ev \in evs}

Releases == {"free_slot", "free_table"}

(***************************************************************************)
(* C21: within one fini every element callback precedes the bulk-buffer    *)
(* callback, the bulk-buffer callback precedes the release of the per-slot *)
(* storage and of the slot table, and no callback is made after slot       *)
(* storage has been freed.                                                 *)
(***************************************************************************)
TeardownOrdering ==
    /\ \A e \in Positions({"element"}), b \in Positions({"buffer"}) : e < b
    /\ \A b \in Positions({"buffer"}), f \in Positions(Releases) : b < f
    /\ \A c \in Positions({"element", "buffer"}), f \in Positions({"free_slot"}) : c < f
    /\ Dead =>
          /\ Cardinality(Positions({"free_slot"})) = oh.oh_ncpus
          /\ Cardinality(Positions({"free_table"})) = 1
          /\ Cardinality(Positions({"element"})) = Len(life.order)

\* a populated pool on several cpus was torn down: element callbacks, the
\* buffer callback, the slots, the table
BufferReportedThenSlotsFreed ==
    /\ Dead
    /\ oh.oh_ncpus > 1
    /\ Cardinality(Positions({"element"})) > 1
    /\ Cardinality(Positions({"buffer"})) = 1
    /\ life.trace[Len(life.trace)].ev = "free_table"
    /\ life.trace[Len(life.trace) - oh.oh_ncpus - 1].ev = "buffer"
\* the pool head after objpool_fini: no slot table, no bulk buffer
Inert ==
    /\ oh.oh_slots = <<>> /\ oh.oh_sz_slots = <<>>
    /\ oh.oh_pool = NULL /\ oh.oh_sz_pool = 0

(***************************************************************************)
(* C22: fini is idempotent: after a first fini the pool head is inert      *)
(* (slot table pointer nil, bulk buffer cleared), and a second fini        *)
(* invokes no callback, frees nothing and changes no field.                *)
(***************************************************************************)
FiniIdempotent ==
    [][/\ Dead' => Inert'
       /\ (Dead /\ last'.op = "fini") =>
             /\ oh' = oh
             /\ slots' = slots
             /\ life'.calls = life.calls
             /\ life'.trace = life.trace
             /\ life'.finis = life.finis + 1
      ]_vars

\* objpool_fini ran twice on a pool that held objects and a bulk buffer
FiniRanTwice ==
    /\ Dead /\ Inert
    /\ life.finis = 2
    /\ Cardinality(Positions({"element"})) = Len(life.order)
    /\ Len(life.order) > 0
    /\ Cardinality(Positions({"buffer"})) = 1
    /\ Cardinality(Positions({"free_table"})) = 1
(***************************************************************************)
(* objpool_init on any machine, with any request and with any one          *)
(* allocation or objinit callback failing; then objpool_add_scattered and  *)
(* objpool_fini on what it left.                                           *)
(***************************************************************************)
Asyms == {0, 1, 2}

\* the calls of objpool_init tried: <<cpus, nobjs, objsz, asym>>
InitArgs ==
    ((1 .. MaxCpus) \X Counts \X ObjSizes \X Asyms)
    \cup ({CpuLimit, CpuLimit + 1} \X {0, ManyObjs} \X {0} \X {0, 1})

\* what may fail: nothing, kzalloc of the table, the allocation of one slot,
\* the objinit callback on one object
Faults ==
    {NoFault, [kind |-> "table", at |-> 0]}
    \cup {[kind |-> "slot", at |-> i] : i \in 0 .. (MaxCpus - 1)}
    \cup {[kind |-> "objinit", at |-> m] : m \in {0, 1, ManyObjs - 1}}

\* the pool head before objpool_init is called on it
InitSetup ==
    /\ oh = ZeroHead
    /\ slots = <<>>
    /\ life = [NoLife EXCEPT !.phase = "raw"]
    /\ last = NoLast
    /\ pc = [t \in Threads |-> "idle"]
    /\ loc = [t \in Threads |-> NoLoc]
    /\ held = [t \in Threads |-> [r \in Refs |-> 0]]
    /\ npush = 0
    /\ run = NoRun
    /\ meter = FALSE

\* objpool_init(oh, nobjs, objsz, asym, gfp, objinit) on a machine of cpus cpus
SetupInit(cpus, nobjs, objsz, asym, fault) ==
    /\ life.phase = "raw"
    /\ LET r == objpool_init(nobjs, objsz, asym, cpus, fault)
       IN  /\ oh' = r.h
           /\ slots' = r.s
           /\ life' = [phase |-> IF r.rc = "ok" THEN "init" ELSE "failed",
                       count |-> nobjs, asym |-> asym, order |-> r.order,
                       calls |-> <<>>, trace |-> r.trace, finis |-> 0]
           /\ last' = [op |-> "init", cpu |-> cpus, obj |-> NULL, rc |-> r.rc,
                       path |-> <<nobjs, objsz, asym, fault.kind, fault.at>>]
    /\ UNCHANGED <<pc, loc, held, npush, run, meter>>

\* objpool_fini on a pool that objpool_init was called on
SetupFini == life.phase # "raw" /\ BuildFini

NextSetup ==
    \/ \E a \in InitArgs, fault \in Faults : SetupInit(a[1], a[2], a[3], a[4], fault)
    \/ \E obj \in {NULL} \cup ExtRefs : BuildAddScattered(obj)
    \/ SetupFini

SpecSetup == InitSetup /\ [][NextSetup]_vars
\* objpool_init returned an error
Failed == life.phase = "failed"

\* the state right after objpool_init returned
AfterInit == last.op = "init"

\* the arguments and the fault of that call
ArgCpus == last.cpu
ArgNobjs == last.path[1]
ArgObjsz == last.path[2]
ArgAsym == last.path[3]
ArgFault == [kind |-> last.path[4], at |-> last.path[5]]

\* the fault strikes an allocation or a callback that this call makes
FaultStrikes ==
    /\ ArgCpus < CpuLimit
    /\ \/ ArgFault.kind = "table"
       \/ ArgFault.kind = "slot" /\ ArgFault.at < ArgCpus
       \/ ArgFault.kind = "objinit" /\ ArgObjsz > 0 /\ ArgFault.at < ArgNobjs

\* the releases of the block at addr, by position in the trace
FreesOf(addr) == {f \in Positions(Releases) : life.trace[f].addr = addr}

Allocations == {"alloc_slot", "alloc_table"}

(***************************************************************************)
(* C23: if the allocation of the slot table or of any slot fails, or the   *)
(* objinit callback fails, init returns the error with every slot          *)
(* allocated so far released exactly once and the slot table pointer nil;  *)
(* a fini called on such a pool makes no callback and frees nothing a      *)
(* second time.                                                            *)
(***************************************************************************)
InitFailureCleanup ==
    /\ (AfterInit /\ FaultStrikes) =>
          (Failed /\ last.rc = (IF ArgFault.kind = "objinit" THEN "EOBJINIT" ELSE "ENOMEM"))
    /\ Failed =>
          /\ oh.oh_slots = <<>>
          /\ \A m \in Positions(Allocations) :
                /\ Cardinality(FreesOf(life.trace[m].addr)) = 1
                /\ \A f \in FreesOf(life.trace[m].addr) : m < f
          /\ \A f \in Positions(Releases) :
                \E m \in Positions(Allocations) : life.trace[m].addr = life.trace[f].addr
          /\ Positions({"element", "buffer"}) = {}
          /\ life.calls = <<>>

\* the third slot could not be allocated, two slots and the table were
\* released by init, and objpool_fini was then called on the pool
FiniAfterFailedInit ==
    /\ Failed
    /\ life.finis > 0
    /\ last.op = "fini"
    /\ Cardinality(Positions({"alloc_slot"})) = 2
    /\ Cardinality(Positions({"free_slot"})) = 2
    /\ Cardinality(Positions({"free_table"})) = 1
    /\ oh.oh_ncpus = 3
(***************************************************************************)
(* The per-slot capacity objpool_init computes.                            *)
(***************************************************************************)
IsPowerOfTwo(n) == \E k \in 0 .. 30 : n = 2 ^ k

\* a ring of p entries fits in one cache line behind the slot header
FitsLine(p) == SizeofSlot + p * (SizeofAge + SizeofPtr) <= L1_CACHE_BYTES

\* the largest power of two of entries that fits in one cache line
MinCapacity == CHOOSE p \in 1 .. L1_CACHE_BYTES :
                   IsPowerOfTwo(p) /\ FitsLine(p) /\ ~FitsLine(2 * p)

\* objpool_init got as far as computing the capacity
Sized == AfterInit /\ ArgCpus < CpuLimit

(***************************************************************************)
(* C24 as stated: the per-slot capacity is a power of two, is at least     *)
(* L1_cache_line_bytes / (4 + sizeof(ref)) rounded up to a power of two,   *)
(* and capacity * num_cores >= requested count.                            *)
(***************************************************************************)
SizingAtLeastLineOverEntry ==
    LET entry == SizeofAge + SizeofPtr
        bound == CHOOSE p \in 1 .. (2 * L1_CACHE_BYTES) :
                     /\ IsPowerOfTwo(p)
                     /\ p * entry >= L1_CACHE_BYTES
                     /\ (p \div 2) * entry < L1_CACHE_BYTES
    IN  Sized =>
            /\ IsPowerOfTwo(oh.oh_nents)
            /\ oh.oh_nents >= bound
            /\ oh.oh_nents * ArgCpus >= ArgNobjs

(***************************************************************************)
(* C24: for every requested count, core count and asym, the per-slot       *)
(* capacity computed by init is a power of two, is at least the largest    *)
(* power of two of entries that fit in one cache line together with the    *)
(* slot header, i.e. (L1_cache_line_bytes - sizeof(slot header)) /         *)
(* (4 + sizeof(ref)) rounded down to a power of two, and satisfies         *)
(* capacity * num_cores >= requested count.                                *)
(***************************************************************************)
SizingAtLeastWhatFitsLine ==
    Sized =>
        /\ IsPowerOfTwo(oh.oh_nents)
        /\ oh.oh_nents >= MinCapacity
        /\ oh.oh_nents * ArgCpus >= ArgNobjs
        /\ life.phase = "init" => \A c \in CpusOf(oh) : slots[c].os_size = oh.oh_nents

\* one cpu, 16 objects, asym = 2: the capacity 8 had to be doubled
CapacityDoubled ==
    /\ Sized /\ last.rc = "ok"
    /\ ArgCpus = 1 /\ ArgAsym = 2 /\ ArgNobjs = BulkObjs
    /\ oh.oh_nents = BulkObjs
    /\ oh.oh_nents > roundup_pow_of_two(ArgNobjs \div ArgAsym)

(***************************************************************************)
(* C25 as stated: init with count < num_cores * minimum_slot_capacity      *)
(* yields per_slot_capacity == minimum_slot_capacity for every asym.       *)
(***************************************************************************)
SmallCountMinimumAnyAsym ==
    (Sized /\ ArgNobjs < ArgCpus * MinCapacity) =>
        (last.rc \in {"ok", "ENOMEM", "EOBJINIT"} /\ oh.oh_nents = MinCapacity)

(***************************************************************************)
(* C25: init with count < num_cores * minimum_slot_capacity succeeds and   *)
(* yields per_slot_capacity == minimum_slot_capacity when asym = 0, and    *)
(* for asym >= 1 exactly when count / asym <= minimum_slot_capacity;       *)
(* otherwise the capacity is larger (asym = 1, count = 5 on 2 cores gives  *)
(* 8).                                                                     *)
(***************************************************************************)
SmallCountMinimumIfBalanced ==
    (Sized /\ ArgNobjs < ArgCpus * MinCapacity) =>
        /\ ~FaultStrikes => last.rc = "ok"
        /\ oh.oh_nents = MinCapacity
              <=> (ArgAsym = 0 \/ ArgNobjs \div ArgAsym <= MinCapacity)
        /\ oh.oh_nents >= MinCapacity
        /\ (ArgAsym = 1 /\ ArgNobjs = 5 /\ ArgCpus = 2) => oh.oh_nents = 8

\* 5 objects on 2 cpus with asym = 2: the minimum capacity
SmallPoolAtMinimum ==
    /\ Sized /\ last.rc = "ok"
    /\ ArgNobjs = ManyObjs /\ ArgCpus = 2 /\ ArgAsym = 2
    /\ ArgNobjs < ArgCpus * MinCapacity
    /\ oh.oh_nents = MinCapacity
    /\ oh.oh_nents = 4
(***************************************************************************)
(* C26: init with asym = 1 produces per_slot_capacity >= count, so any     *)
(* single slot can hold all the count objects and, with them in the pool,  *)
(* push selects the unconditional primitive.                               *)
(***************************************************************************)
PerformanceModeHoldsAll ==
    (Building /\ life.asym = 1) =>
        /\ oh.oh_nents >= life.count
        /\ \A c \in CpusOf(oh) : slots[c].os_size >= life.count
        /\ oh.oh_nobjs <= life.count => ~UseTryAdd(oh)
        /\ (oh.oh_in_slot = 1 /\ NExt = 0) => oh.oh_nobjs = life.count

\* a pool made with asym = 1 for 5 objects holds all 5 and pushes
\* unconditionally, where the balanced pool of 5 on 2 cpus would not
PerformancePoolFilled ==
    /\ Building /\ life.asym = 1
    /\ life.count = ManyObjs /\ oh.oh_nobjs = ManyObjs
    /\ oh.oh_ncpus = 2
    /\ NExt = ManyObjs
    /\ oh.oh_nobjs > InitNents(ManyObjs, 0, 2)
    /\ ~UseTryAdd(oh)

(***************************************************************************)
(* C27 as stated: init returns Unsupported if and only if the core count   *)
(* is greater than 2^16; a core count of exactly 2^16 is accepted.         *)
(***************************************************************************)
UnsupportedAboveLimit ==
    AfterInit => (last.rc = "ENOTSUPP" <=> ArgCpus > CpuLimit)

(***************************************************************************)
(* C27: init returns Unsupported if and only if the core count is at least *)
(* 2^16 (a core count of exactly 2^16 does not fit the 16-bit field and is *)
(* refused), and in that case it allocates nothing.                        *)
(***************************************************************************)
UnsupportedFromLimit ==
    AfterInit =>
        /\ last.rc = "ENOTSUPP" <=> ArgCpus >= CpuLimit
        /\ last.rc = "ENOTSUPP" =>
              /\ life.trace = <<>>
              /\ oh = ZeroHead
              /\ slots = <<>>

\* exactly 2^16 cpus: refused, nothing allocated
RefusedAtLimit ==
    /\ AfterInit
    /\ ArgCpus = CpuLimit
    /\ last.rc = "ENOTSUPP"
    /\ Positions(Allocations) = {}
(***************************************************************************)
(* The whole life of a pool: objpool_init, population in quiescent         *)
(* single-threaded initialisation, then concurrent push and pop.           *)
(***************************************************************************)
\* the calls of objpool_init tried: <<nobjs, objsz>>
LifeArgs == {<<ManyObjs, 0>>, <<FewObjs, SizeofPtr>>, <<ManyObjs, SizeofPtr>>}

InitLife ==
    /\ \E a \in LifeArgs :
          LET r == objpool_init(a[1], a[2], 0, NCpus, NoFault)
          IN  /\ oh = r.h
              /\ slots = r.s
              /\ life = [phase |-> "init", count |-> a[1], asym |-> 0, order |-> r.order,
                         calls |-> <<>>, trace |-> r.trace, finis |-> 0]
    /\ pc = [t \in Threads |-> "idle"]
    /\ loc = [t \in Threads |-> NoLoc]
    /\ held = [t \in Threads |-> [r \in Refs |-> 0]]
    /\ npush = 0
    /\ last = [NoLast EXCEPT !.op = "init"]
    /\ run = NoRun
    /\ meter = FALSE

\* objpool_add_scattered with the caller's next reference, before the pool
\* goes live
LifeAdd(obj) == BuildAddScattered(obj)

\* the pool goes live: the callers start and hold nothing yet
GoLive ==
    /\ Building
    /\ oh.oh_nobjs > 0
    /\ life' = [life EXCEPT !.phase = "live"]
    /\ held' = [t \in Threads |-> [r \in Objects |-> 0]]
    /\ last' = NoLast
    /\ UNCHANGED <<oh, slots, pc, loc, npush, run, meter>>

NextLife ==
    \/ \E obj \in ExtRefs : LifeAdd(obj)
    \/ GoLive
    \/ \E t \in Threads : LivePop(t) \/ LivePush(t)

SpecLife == InitLife /\ [][NextLife]_vars

(***************************************************************************)
(* C28: occupancy bound.  In every reachable state, while the pool is      *)
(* populated with the unconditional primitive and once it is live under    *)
(* either push policy, every slot has 0 <= tail - head <= size, so a push  *)
(* never overwrites a ring entry that has not been popped: a pusher that   *)
(* has reserved a ticket stores at a ring position that no other ticket of *)
(* the slot occupies.                                                      *)
(***************************************************************************)
OccupancyBound ==
    \A c \in CpusOf(oh) :
        /\ Occ(slots[c]) >= 0
        /\ Occ(slots[c]) <= slots[c].os_size
        /\ \A t \in Threads :
              (pc[t] \in {"add_ent", "add_age"} /\ loc[t].cpu = c)
                  => /\ loc[t].tail \in Tickets(slots[c])
                     /\ \A k \in Tickets(slots[c]) \ {loc[t].tail} :
                           SlotIdx(slots[c], k) # SlotIdx(slots[c], loc[t].tail)

\* a bounded push has taken the last free entry of a slot of the live pool
BoundedPushFilledSlot ==
    \E t \in Threads :
        /\ Live
        /\ UseTryAdd(oh)
        /\ pc[t] = "add_age"
        /\ Occ(Slot(t)) = Slot(t).os_size

(***************************************************************************)
(* C29: readiness.  For every slot and every ticket i with                 *)
(* head <= i < tail, ages[i & mask] = i if and only if the push (or the    *)
(* initial insert) that holds ticket i has published its age; with the     *)
(* ages zeroed and head = tail = size at the start, a position that is     *)
(* reserved and not yet published never appears ready.                     *)
(***************************************************************************)
ReadinessInvariant ==
    /\ \A c \in CpusOf(oh) : \A i \in Tickets(slots[c]) :
          AgeReady(slots[c], i) <=> InFlight(c, i) = {}
    /\ \A t \in Threads :
          pc[t] \in {"add_ent", "add_age"} => ~AgeReady(Slot(t), loc[t].tail)

\* a push holds the first ticket ever of a slot, its age still the initial 0
FirstTicketUnpublished ==
    \E t \in Threads :
        /\ Live
        /\ pc[t] = "add_age"
        /\ loc[t].tail = Slot(t).os_size
        /\ Slot(t).ages[SlotIdx(Slot(t), loc[t].tail)] = 0

(***************************************************************************)
(* C30: push policy.  A push uses the bounded (CAS loop) primitive on      *)
(* every slot it tries if and only if the object count of the pool exceeds *)
(* the capacity of one slot, and the unconditional fetch-and-increment     *)
(* otherwise; the unconditional primitive is never applied to a slot that  *)
(* could be full.                                                          *)
(***************************************************************************)
PushPolicySelection ==
    \A t \in Threads :
        /\ pc[t] \in {"try_head", "try_tail", "try_cas"} <=>
              (pc[t] \in PushPcs \ {"add_ent", "add_age"} /\ oh.oh_nobjs > oh.oh_nents)
        /\ pc[t] = "add_inc" <=>
              (pc[t] \in PushPcs \ {"add_ent", "add_age"} /\ oh.oh_nobjs <= oh.oh_nents)
        /\ pc[t] = "add_inc" =>
              \A c \in CpusOf(oh) : Occ(slots[c]) < slots[c].os_size

\* an unconditional push is about to reserve in a pool that holds exactly as
\* many objects as one slot has entries
PushAtPolicyBoundary ==
    \E t \in Threads :
        /\ Live
        /\ pc[t] = "add_inc"
        /\ oh.oh_nobjs = oh.oh_nents

(***************************************************************************)
(* A pool that has been in use for long: os_head and os_tail of its slots  *)
(* stand just below the point where the uint32_t counters wrap.            *)
(***************************************************************************)
\* the slot after d more pops and as many pushes: every ticket moved up by d,
\* the ring positions outside head .. tail - 1 keep the age and the entry of
\* the ticket that was popped from them last (which object sits at which
\* ticket depends on the history; one such order is taken)
AgedSlot(os, d) ==
    LET m == Occ(os)
        head == (os.os_head + d) % UintMod
        tail == (head + m) % UintMod
        w == (tail + (UintMod - os.os_size)) % UintMod
        at(i) == CHOOSE j \in 0 .. (os.os_size - 1) : SlotIdx(os, (w + j) % UintMod) = i
        from(j) == IF j >= os.os_size - m THEN j - (os.os_size - m)
                   ELSE IF m > 0 THEN j % m ELSE 0
    IN  [os EXCEPT !.os_head = head,
                   !.os_tail = tail,
                   !.ages = [i \in DOMAIN os.ages |-> (w + at(i)) % UintMod],
                   !.ents = [i \in DOMAIN os.ents |->
                               IF m = 0 THEN NULL
                               ELSE os.ents[SlotIdx(os, (os.os_head + from(at(i))) % UintMod)]]]

\* how far below the wrap point the heads stand at the start
WrapHeads == {WrapNear, 2}

InitWrap ==
    /\ \E back \in WrapHeads :
          LET p == InitRing(ManyObjs, NCpus, ManyObjs)
          IN  /\ oh = p.h
              /\ slots = [c \in DOMAIN p.s |->
                            AgedSlot(p.s[c], UintMod - back - p.s[c].os_head)]
    /\ pc = [t \in Threads |-> "idle"]
    /\ loc = [t \in Threads |-> NoLoc]
    /\ held = [t \in Threads |-> [r \in Refs |-> 0]]
    /\ npush = 0
    /\ last = NoLast
    /\ run = NoRun
    /\ life = NoLife
    /\ meter = FALSE

\* objpool_push goes round the slots for as long as none takes the object:
\* the walk is followed for MaxWalk slots
WrapPush(t) == loc[t].i < MaxWalk /\ Push(t)

NextWrap == \E t \in Threads : Pop(t) \/ WrapPush(t)

SpecWrap == InitWrap /\ [][NextWrap]_vars

(***************************************************************************)
(* C31: the fullness test across the wrap.  For all values of head and     *)
(* tail, those where head + size overflows included, the bounded push is   *)
(* turned away by a slot only when the occupancy (tail - head) mod 2^w is  *)
(* at least size, and a slot that is not full is never reported full (so   *)
(* no slot stays closed to pushes once its counters are near the wrap).    *)
(***************************************************************************)
FullnessTestWrapSafe ==
    /\ [](\A c \in CpusOf(oh) :
            SlotFull(slots[c], slots[c].os_head, slots[c].os_tail)
                => Occ(slots[c]) >= slots[c].os_size)
    /\ [][\A t \in Threads :
             (pc[t] = "try_tail" /\ pc'[t] = "try_head")
                 => (Slot(t).os_tail - loc[t].head) % UintMod >= Slot(t).os_size]_vars

(***************************************************************************)
(* C32: per-slot ticket order.  In every interleaving the head and the     *)
(* tail of a slot never decrease; the tail advances by exactly 1 with each *)
(* push reservation and only then, the head by exactly 1 with each         *)
(* successful pop and only then; the pop that moves the head takes the     *)
(* object of the ticket the head stood at, so the objects of one slot      *)
(* leave it in the increasing order of their push tickets.                 *)
(***************************************************************************)
\* t reserves a ticket of slot c in this step
Reserves(t, c) ==
    /\ pc[t] \in {"add_inc", "try_cas"}
    /\ pc'[t] = "add_ent"
    /\ loc[t].cpu = c

\* t pops from slot c in this step
Takes(t, c) ==
    /\ pc[t] = "get_cas"
    /\ pc'[t] = "idle"
    /\ loc[t].cpu = c

PerSlotTicketOrder ==
    [][\A c \in CpusOf(oh) :
          /\ (slots'[c].os_head - slots[c].os_head) % UintMod \in {0, 1}
          /\ (slots'[c].os_tail - slots[c].os_tail) % UintMod \in {0, 1}
          /\ slots'[c].os_tail # slots[c].os_tail
                <=> \E t \in Threads : Reserves(t, c)
          /\ slots'[c].os_head # slots[c].os_head
                <=> \E t \in Threads : Takes(t, c)
          /\ \A t \in Threads :
                Reserves(t, c) => loc'[t].tail = slots[c].os_tail
          /\ \A t \in Threads :
                Takes(t, c) =>
                    /\ loc[t].head = slots[c].os_head
                    /\ loc[t].node = TicketRef(c, slots[c].os_head)
                    /\ held'[t][loc[t].node] = held[t][loc[t].node] + 1]_vars

\* two objects have left one slot, the second of them pushed to it after the
\* pool was filled
TwoLeftOneSlot ==
    \E c \in CpusOf(oh) :
        /\ InitCount(c) = 1
        /\ slots[c].os_head = slots[c].os_size + 2

(***************************************************************************)
(* C33: a pop that returns empty, and every failed attempt of a pop on a   *)
(* slot (age mismatch, or the CAS on head lost), leaves head, tail, ages   *)
(* and ents of every slot and every field of the pool head unchanged; push *)
(* and pop never modify size, mask or a field of the pool head.            *)
(***************************************************************************)
\* t takes a step of objpool_pop
PopSteps(t) == pc[t] \in PopPcs /\ pc'[t] # pc[t]

\* the step of t is the CAS on the head it read, and the head is still there
WinsHead(t) == pc[t] = "get_cas" /\ loc[t].head = Slot(t).os_head

PopFailureFrame ==
    [][/\ oh' = oh
       /\ \A c \in CpusOf(oh) :
             /\ slots'[c].os_size = slots[c].os_size
             /\ slots'[c].os_mask = slots[c].os_mask
       /\ \A t \in Threads :
             (PopSteps(t) /\ ~WinsHead(t)) =>
                 /\ slots' = slots
                 /\ held' = held
       /\ \A t \in Threads :
             (pc[t] = "get_age" /\ ~AgeReady(Slot(t), loc[t].head))
                 => pc'[t] \in {"get_age", "get_reload"}
       /\ \A t \in Threads :
             (pc[t] = "get_cas" /\ ~WinsHead(t))
                 => pc'[t] \in {"get_cas", "get_reload"}]_vars

\* a pop has lost the CAS on the head to another pop and is about to reload
PopLostHeadCas ==
    \E t \in Threads :
        /\ pc[t] = "get_reload"
        /\ loc[t].node # NULL
        /\ Slot(t).os_head # loc[t].head

(***************************************************************************)
(* objpool_populate with an objinit callback that may fail, on the pools   *)
(* of the one-caller specification.                                        *)
(***************************************************************************)
\* the object of the buffer on which the callback fails, if on any
CbFaults == {NoFault} \cup {[kind |-> "objinit", at |-> k] : k \in 0 .. MaxCbAt}

\* objpool_populate(oh, buf, size, objsz, objinit) on a buffer of ManyObjs
\* words, none of which is in the pool yet
CbPopulate(fault) ==
    /\ life.phase = "init"
    /\ BulkRefs = <<>>
    /\ LET size == ManyObjs * SizeofPtr
           r == objpool_populate(Pool, BufAddr, size, SizeofPtr, fault)
       IN  /\ oh' = r.p.h
           /\ slots' = r.p.s
           /\ life' = [life EXCEPT !.order = life.order \o r.order]
           /\ last' = [op |-> "populate", cpu |-> 0, obj |-> BufAddr, rc |-> r.rc,
                       path |-> <<size, SizeofPtr, fault.kind, fault.at>>]
    /\ UNCHANGED <<pc, loc, held, npush, run, meter>>

NextCb ==
    \/ \E fault \in CbFaults : CbPopulate(fault)
    \/ \E obj \in ExtRefs : BuildAddScattered(obj)
    \/ BuildFini

SpecCb == InitBuild /\ [][NextCb]_vars

(***************************************************************************)
(* C34: populate is atomic when the objinit callback fails.  If the        *)
(* callback fails on the k-th object, populate returns that error with     *)
(* none of the k-1 earlier references left in a slot, the object count     *)
(* unchanged and no bulk buffer recorded, so that a later fini reports     *)
(* nothing that belongs to that buffer.                                    *)
(***************************************************************************)
PopulateAtomicOnCallbackFailure ==
    /\ [][(Building /\ last'.op = "populate" /\ last'.rc = "EOBJINIT") =>
             /\ slots' = slots
             /\ oh'.oh_nobjs = oh.oh_nobjs
             /\ oh'.oh_pool = oh.oh_pool
             /\ oh'.oh_sz_pool = oh.oh_sz_pool]_vars
    /\ [](\A m \in 1 .. Len(life.calls) :
            (life.calls[m].element = 1 /\ FromBulk(life.calls[m].obj))
                => \E n \in 1 .. Len(life.calls) :
                      life.calls[n].element = 0 /\ life.calls[n].obj = BufAddr)

(***************************************************************************)
(* The ring of src/scalable/inc/rs.h: the slots are zeroed, so that head   *)
(* and tail start at 0, and objpool_pop claims the position at head by a   *)
(* CAS on its age before it reads the entry.  objpool_push is the one      *)
(* above.                                                                  *)
(***************************************************************************)
\* memset(os, 0, size); os->os_size = oh->oh_nents; os->os_mask = os_size - 1
RsNewSlot(nents) ==
    [os_head |-> 0, os_tail |-> 0, os_size |-> nents, os_mask |-> nents - 1,
     ages |-> [i \in 0 .. (nents - 1) |-> 0],
     ents |-> [i \in 0 .. (nents - 1) |-> NULL]]

\* objpool_init(oh, nobjs, 0, 0, gfp) of rs.h on a machine of cpus cpus
RsInit(nobjs, cpus) ==
    LET h == PoolInit(nobjs, 0, cpus).h
    IN  [h |-> h, s |-> [c \in 0 .. (cpus - 1) |-> RsNewSlot(h.oh_nents)]]

\* objpool_init(oh, n, 0, 0, gfp), then objpool_add_scattered of n references
RsPool(n) == AddMany(RsInit(n, NCpus), n)

\* the object counts of the pools tried
RsCounts == {1, FewObjs, ManyObjs}

InitRs ==
    /\ \E n \in RsCounts : \E p \in {RsPool(n)} :
          oh = p.h /\ slots = p.s
    /\ pc = [t \in Threads |-> "idle"]
    /\ loc = [t \in Threads |-> NoLoc]
    /\ held = [t \in Threads |-> [r \in Refs |-> 0]]
    /\ npush = 0
    /\ last = NoLast
    /\ run = NoRun
    /\ life = NoLife
    /\ meter = FALSE

\* if (try_cmpxchg_acquire(&ages[id], &head, head - 1))
RsClaim(t) ==
    /\ pc[t] = "get_age"
    /\ IF CasOk(Slot(t).ages[SlotIdx(Slot(t), loc[t].head)], loc[t].head)
       THEN /\ slots' = [slots EXCEPT ![loc[t].cpu].ages[SlotIdx(Slot(t), loc[t].head)] =
                                         (loc[t].head + UintMod - 1) % UintMod]
            /\ Goto(t, "rs_ent")
       ELSE /\ Goto(t, "get_reload")
            /\ UNCHANGED slots
    /\ UNCHANGED <<life, meter, last, run, oh, loc, held, npush>>

\* node = READ_ONCE(ents[id]); if (!node) BUG();
RsGetEnt(t) ==
    /\ pc[t] = "rs_ent"
    /\ LET node == Slot(t).ents[SlotIdx(Slot(t), loc[t].head)]
       IN  IF node = NULL
           THEN Goto(t, "bug") /\ UNCHANGED loc
           ELSE Goto(t, "rs_commit") /\ loc' = [loc EXCEPT ![t].node = node]
    /\ UNCHANGED <<life, meter, last, run, oh, slots, held, npush>>

\* smp_store_release(&os->os_head, head + 1); return node;
RsCommit(t) ==
    /\ pc[t] = "rs_commit"
    /\ slots' = [slots EXCEPT ![loc[t].cpu].os_head = (loc[t].head + 1) % UintMod]
    /\ held' = [held EXCEPT ![t][loc[t].node] = @ + 1]
    /\ loc' = [loc EXCEPT ![t] = NoLoc]
    /\ Goto(t, "idle")
    /\ UNCHANGED <<life, meter, last, run, oh, npush>>

\* head = READ_ONCE(os->os_head); objpool_pop passes nested = 0 and goes on
RsReload(t) ==
    /\ pc[t] = "get_reload"
    /\ loc' = [loc EXCEPT ![t].head = Slot(t).os_head]
    /\ Goto(t, "get_tail")
    /\ UNCHANGED <<life, meter, last, run, oh, slots, held, npush>>

RsPop(t) ==
    \/ PopStart(t)
    \/ GetHead(t)
    \/ GetTail(t)
    \/ RsClaim(t)
    \/ RsGetEnt(t)
    \/ RsCommit(t)
    \/ RsReload(t)

NextRs == \E t \in Threads : RsPop(t) \/ Push(t)

SpecRs == InitRs /\ [][NextRs]_vars

(***************************************************************************)
(* C35: in the rs.h ring the BUG() raised when a claimed position holds a  *)
(* null reference is unreachable in every interleaving of push and pop on  *)
(* a freshly initialised pool, callers never pushing null.                 *)
(***************************************************************************)
NullBugUnreachable == \A t \in Threads : pc[t] # "bug"

(***************************************************************************)
(* objpool_populate of rs.h, called by the one caller that builds the      *)
(* pool.  oh_pool and oh_sz_pool stand for oh_batch_user and               *)
(* oh_batch_size.                                                          *)
(***************************************************************************)
\* while (used + objsz < size) { ... if (objpool_add_scattered(...)) break; ... }
RECURSIVE RsPopulateLoop(_, _, _, _, _, _)
RsPopulateLoop(p, buf, size, objsz, used, order) ==
    IF used + objsz < size
    THEN LET a == objpool_add_scattered(p, buf + used)
         IN  IF a.rc # "ok" THEN [p |-> p, used |-> used, order |-> order]
             ELSE RsPopulateLoop(a.p, buf, size, objsz, used + objsz,
                                 Append(order, buf + used))
    ELSE [p |-> p, used |-> used, order |-> order]

\* objpool_populate(oh, buf, size, objsz) of rs.h
RsPopulate(p, buf, size, objsz) ==
    IF p.h.oh_pool # NULL \/ buf = NULL \/ objsz = 0 \/ size < objsz
    THEN [p |-> p, rc |-> "EINVAL", order |-> <<>>]
    ELSE IF p.h.oh_objsz # 0 /\ p.h.oh_objsz # objsz
    THEN [p |-> p, rc |-> "EINVAL", order |-> <<>>]
    ELSE LET r == RsPopulateLoop(p, buf, size, objsz, 0, <<>>)
         IN  IF r.used = 0
             THEN [p |-> r.p, rc |-> "ENOENT", order |-> <<>>]
             ELSE [p |-> [r.p EXCEPT !.h.oh_pool = buf, !.h.oh_sz_pool = size,
                                     !.h.oh_objsz = objsz],
                   rc |-> "ok", order |-> r.order]

InitRsBuild ==
    /\ \E cpus \in 1 .. MaxCpus, nobjs \in Counts : \E p \in {RsInit(nobjs, cpus)} :
          /\ oh = p.h
          /\ slots = p.s
          /\ life = [NoLife EXCEPT !.phase = "init", !.count = nobjs]
    /\ pc = [t \in Threads |-> "idle"]
    /\ loc = [t \in Threads |-> NoLoc]
    /\ held = [t \in Threads |-> [r \in Refs |-> 0]]
    /\ npush = 0
    /\ last = [NoLast EXCEPT !.op = "init"]
    /\ run = NoRun
    /\ meter = FALSE

\* objpool_populate(oh, buf, size, objsz)
RsBuildPopulate(buf, size, objsz) ==
    /\ life.phase = "init"
    /\ LET r == RsPopulate(Pool, buf, size, objsz)
       IN  /\ oh' = r.p.h
           /\ slots' = r.p.s
           /\ life' = [life EXCEPT !.order = life.order \o r.order]
           /\ last' = [op |-> "populate", cpu |-> 0, obj |-> buf, rc |-> r.rc,
                       path |-> <<size, objsz>>]
    /\ UNCHANGED <<pc, loc, held, npush, run, meter>>

NextRsBuild ==
    \/ \E a \in PopulateArgs : RsBuildPopulate(a[1], a[2], a[3])
    \/ \E obj \in ExtRefs : BuildAddScattered(obj)

SpecRsBuild == InitRsBuild /\ [][NextRsBuild]_vars

(***************************************************************************)
(* C36: in the rs.h ring populate carves a reference at every stride       *)
(* boundary: for a buffer whose length is exactly n * stride it inserts n  *)
(* references, the capacity of the pool permitting.                        *)
(***************************************************************************)
RsPopulateCarvesEveryStride ==
    [][\A a \in PopulateArgs :
          (/\ PopulateCall(a[1], a[2], a[3])
           /\ oh.oh_pool = NULL /\ a[1] # NULL /\ a[3] # 0 /\ a[2] >= a[3]
           /\ oh.oh_objsz \in {0, a[3]}
           /\ a[2] % a[3] = 0
           /\ oh.oh_nobjs + a[2] \div a[3] <= oh.oh_ncpus * oh.oh_nents)
              => /\ last'.rc = "ok"
                 /\ oh'.oh_nobjs = oh.oh_nobjs + a[2] \div a[3]
                 /\ Len(life'.order) = Len(life.order) + a[2] \div a[3]]_vars

(***************************************************************************)
(* The array variant aq.h: a slot is a counter os_used and an array of     *)
(* entries; push and pop scan the array and claim an entry by              *)
(* compare-and-swap, then adjust the counter.  In loc, i is the entry      *)
(* index of the scan, node the entry loaded, prev the number of slots a    *)
(* pop has given up on.                                                    *)
(***************************************************************************)
\* cpu_next of objpool_push and objpool_pop: odd cpus walk down, even cpus up
AqCpuNext(h, cpu0, cpu) ==
    IF cpu0 % 2 = 1
    THEN IF cpu = 0 THEN h.oh_ncpus - 1 ELSE cpu - 1
    ELSE IF cpu = h.oh_ncpus - 1 THEN 0 ELSE cpu + 1

\* atomic_read(&os->os_used) < os->os_size: the int is converted to uint32_t
AqBelow(used, size) == (used % UintMod) < size

\* objpool_init(oh, n, 0, 0, gfp), then n objpool_add_scattered: object k goes
\* to slot (k - 1) % ncpus, into the first free entry
InitAq ==
    /\ \E n \in {FewObjs, ManyObjs} : \E h \in {PoolInit(n, 0, NCpus).h} :
          /\ oh = h
          /\ slots = [c \in CpusOf(h) |->
                        LET k == Cardinality({r \in 1 .. n : (r - 1) % NCpus = c})
                        IN  [os_used |-> k, os_size |-> h.oh_nents,
                             os_mask |-> h.oh_nents - 1,
                             ents |-> [j \in 0 .. (h.oh_nents - 1) |->
                                         IF j < k THEN j * NCpus + c + 1 ELSE NULL]]]
    /\ pc = [t \in Threads |-> "idle"]
    /\ loc = [t \in Threads |-> NoLoc]
    /\ held = [t \in Threads |-> [r \in Refs |-> 0]]
    /\ npush = 0
    /\ last = NoLast
    /\ run = NoRun
    /\ life = NoLife
    /\ meter = FALSE

\* objpool_push with __objpool_add_slot or __objpool_try_add_slot
AqPush(t) ==
    LET os == Slot(t)
        i == loc[t].i
        try == oh.oh_nobjs > oh.oh_nents
        NextSlot == /\ loc' = [loc EXCEPT ![t].cpu = AqCpuNext(oh, loc[t].cpu0, loc[t].cpu),
                                          ![t].i = 0, ![t].node = NULL]
                    /\ Goto(t, "aq_add_chk")
        NextEnt == /\ loc' = [loc EXCEPT ![t].i = IF try THEN i + 1
                                                  ELSE BitAnd(i + 1, os.os_mask),
                                         ![t].node = NULL]
                   /\ Goto(t, "aq_add_chk")
    IN  /\ \/ /\ pc[t] = "idle"
              /\ npush < MaxPush
              /\ \E r \in DOMAIN held[t], c \in CpusOf(oh) :
                    /\ held[t][r] > 0
                    /\ loc' = [loc EXCEPT ![t] = [NoLoc EXCEPT !.cpu = c, !.cpu0 = c,
                                                               !.obj = r]]
              /\ Goto(t, "aq_add_chk")
              /\ npush' = npush + 1
              /\ UNCHANGED <<slots, held>>
           \/ /\ pc[t] = "aq_add_chk"
              /\ IF (try => i < os.os_size) /\ AqBelow(os.os_used, os.os_size)
                 THEN Goto(t, "aq_add_load") /\ UNCHANGED loc
                 ELSE NextSlot
              /\ UNCHANGED <<slots, held, npush>>
           \/ /\ pc[t] = "aq_add_load"
              /\ IF os.ents[i] = NULL
                 THEN Goto(t, "aq_add_cas") /\ UNCHANGED loc
                 ELSE NextEnt
              /\ UNCHANGED <<slots, held, npush>>
           \/ /\ pc[t] = "aq_add_cas"
              /\ IF os.ents[i] = NULL
                 THEN /\ slots' = [slots EXCEPT ![loc[t].cpu].ents[i] = loc[t].obj]
                      /\ held' = [held EXCEPT ![t][loc[t].obj] = @ - 1]
                      /\ Goto(t, "aq_add_inc")
                      /\ UNCHANGED loc
                 ELSE NextEnt /\ UNCHANGED <<slots, held>>
              /\ UNCHANGED npush
           \/ /\ pc[t] = "aq_add_inc"
              /\ slots' = [slots EXCEPT ![loc[t].cpu].os_used = @ + 1]
              /\ loc' = [loc EXCEPT ![t] = NoLoc]
              /\ Goto(t, "idle")
              /\ UNCHANGED <<held, npush>>
        /\ UNCHANGED <<life, meter, last, run, oh>>

\* objpool_pop with __objpool_try_get_slot
AqPop(t) ==
    LET os == Slot(t)
        i == loc[t].i
        NextEnt == /\ loc' = [loc EXCEPT ![t].i = i + 1, ![t].node = NULL]
                   /\ Goto(t, "aq_get_chk")
    IN  /\ \/ /\ pc[t] = "idle"
              /\ NHeld(t) < MaxHeld
              /\ \E c \in CpusOf(oh) :
                    loc' = [loc EXCEPT ![t] = [NoLoc EXCEPT !.cpu = c, !.cpu0 = c]]
              /\ Goto(t, "aq_get_chk")
              /\ UNCHANGED <<slots, held>>
           \/ /\ pc[t] = "aq_get_chk"
              /\ IF i < os.os_size /\ os.os_used # 0
                 THEN Goto(t, "aq_get_load") /\ UNCHANGED loc
                 ELSE IF loc[t].prev + 1 < oh.oh_ncpus
                 THEN /\ loc' = [loc EXCEPT ![t].cpu = AqCpuNext(oh, loc[t].cpu0, loc[t].cpu),
                                            ![t].prev = @ + 1, ![t].i = 0]
                      /\ Goto(t, "aq_get_chk")
                 ELSE /\ loc' = [loc EXCEPT ![t] = NoLoc]
                      /\ Goto(t, "idle")
              /\ UNCHANGED <<slots, held>>
           \/ /\ pc[t] = "aq_get_load"
              /\ IF os.ents[i] # NULL
                 THEN /\ loc' = [loc EXCEPT ![t].node = os.ents[i]]
                      /\ Goto(t, "aq_get_cas")
                 ELSE NextEnt
              /\ UNCHANGED <<slots, held>>
           \/ /\ pc[t] = "aq_get_cas"
              /\ IF os.ents[i] = loc[t].node
                 THEN /\ slots' = [slots EXCEPT ![loc[t].cpu].ents[i] = NULL]
                      /\ held' = [held EXCEPT ![t][loc[t].node] = @ + 1]
                      /\ Goto(t, "aq_get_dec")
                      /\ UNCHANGED loc
                 ELSE NextEnt /\ UNCHANGED <<slots, held>>
           \/ /\ pc[t] = "aq_get_dec"
              /\ slots' = [slots EXCEPT ![loc[t].cpu].os_used = @ - 1]
              /\ loc' = [loc EXCEPT ![t] = NoLoc]
              /\ Goto(t, "idle")
              /\ UNCHANGED held
        /\ UNCHANGED <<life, meter, last, run, oh, npush>>

NextAq == \E t \in Threads : AqPop(t) \/ AqPush(t)

SpecAq == InitAq /\ [][NextAq]_vars

\* no push or pop is at work on the slot of cpu c
SlotAtRest(c) == \A t \in Threads : pc[t] = "idle" \/ loc[t].cpu # c

\* the number of occupied entries of a slot of the array variant
AqEntries(os) == Cardinality({j \in DOMAIN os.ents : os.ents[j] # NULL})

\* os_used is the number of occupied entries of every slot nothing works on
AqUsedExactAtRest ==
    \A c \in CpusOf(oh) : SlotAtRest(c) => slots[c].os_used = AqEntries(slots[c])

(***************************************************************************)
(* C37: in the array variant every slot's os_used stays within             *)
(* [0, os_size] in every reachable state under concurrent push and pop,    *)
(* and equals the number of non-null entries of the slot whenever no       *)
(* operation on the slot is in flight.                                     *)
(***************************************************************************)
AqUsedCountsObjects ==
    /\ \A c \in CpusOf(oh) :
          slots[c].os_used >= 0 /\ slots[c].os_used <= slots[c].os_size
    /\ AqUsedExactAtRest

(***************************************************************************)
(* The epoch-tagged freelist "sapc" of part_000.  Its head and slots are   *)
(* kept in the records of the object pool: fh_nrecords is oh_nobjs,        *)
(* fh_nents oh_nents, fh_ncores oh_ncpus, fh_record oh_objsz, and fs_head, *)
(* fs_tail, fs_size, fs_mask, fs_ages, fs_ents are os_head, os_tail,       *)
(* os_size, os_mask, ages, ents.  freelist_add and freelist_try_get make   *)
(* the memory accesses of objpool_push and objpool_pop, one for one.       *)
(* A slot is one block: fs_ages[fs_size], then fs_ents[fs_size], then the  *)
(* records; an index beyond fs_size reaches into what lies behind.         *)
(***************************************************************************)
freelist_num_of_items(size) ==
    rounddown_pow_of_two((size - SizeofFreelistSlot) \div (SizeofAge + SizeofPtr))

\* slot->fs_ents[slot->fs_tail] = record; slot->fs_ages[slot->fs_tail] =
\* slot->fs_tail; slot->fs_tail++, for the j-th record on.  The index is not
\* masked: the entry lands on cell fs_tail of fs_ents, and the age on cell
\* fs_tail of fs_ages, which is one half of the entry (fs_tail - fs_size) / 2;
\* that entry is left holding age words, written here as minus the age
RECURSIVE SapcEmbedLoop(_, _, _, _, _)
SapcEmbedLoop(os, objs, record, n, j) ==
    IF j >= n THEN os
    ELSE LET t == os.os_tail
             e1 == (t :> (objs + j * record)) @@ os.ents
             a1 == (t :> t) @@ os.ages
             torn == (t - os.os_size) \div 2
             e2 == IF t >= os.os_size /\ torn \in DOMAIN e1
                   THEN [e1 EXCEPT ![torn] = 0 - t] ELSE e1
         IN  SapcEmbedLoop([os EXCEPT !.ents = e2, !.ages = a1, !.os_tail = t + 1],
                           objs, record, n, j + 1)

\* freelist_init_slots
freelist_init_slots(h) ==
    LET record == ALIGN(h.oh_objsz, SizeofPtr)
    IN  [i \in 0 .. (h.oh_ncpus - 1) |->
            SapcEmbedLoop(NewSlot(h.oh_nents),
                          SlotAddr(i) + SizeofFreelistSlot
                              + (SizeofAge + SizeofPtr) * h.oh_nents,
                          record,
                          IF record # 0 THEN SlotShare(h.oh_nobjs, h.oh_ncpus, i) ELSE 0,
                          0)]

\* freelist_init_scattered(list, nrecords, asym, record, gfp)
freelist_init_scattered(nrecords, asym, record, cpus) ==
    LET n0 == IF asym = 0 THEN nrecords \div cpus ELSE nrecords
        n1 == IF n0 < freelist_num_of_items(2 * L1_CACHE_BYTES)
              THEN freelist_num_of_items(2 * L1_CACHE_BYTES) ELSE n0
        h == [ZeroHead EXCEPT !.oh_ncpus = cpus, !.oh_objsz = record,
                              !.oh_nents = GrowNents(roundup_pow_of_two(n1), cpus, nrecords),
                              !.oh_nobjs = nrecords,
                              !.oh_in_slot = IF record # 0 THEN 1 ELSE 0]
    IN  [h |-> h, s |-> freelist_init_slots(h)]

\* freelist_init(list, n) followed by n freelist_try_add, as the harness does,
\* or freelist_init_scattered with records embedded in the slots
InitSapc ==
    /\ \E n \in {FewObjs, BulkObjs}, asym \in {0, 1}, record \in ObjSizes :
          \E p \in {IF record = 0
                    THEN AddMany([freelist_init_scattered(n, asym, 0, NCpus)
                                     EXCEPT !.h.oh_nobjs = 0], n)
                    ELSE freelist_init_scattered(n, asym, record, NCpus)} :
             /\ oh = p.h
             /\ slots = p.s
             /\ life = [NoLife EXCEPT !.count = n, !.asym = asym]
             /\ held = [t \in Threads |-> [r \in 1 .. n |-> 0]]
    /\ pc = [t \in Threads |-> "idle"]
    /\ loc = [t \in Threads |-> NoLoc]
    /\ npush = 0
    /\ last = NoLast
    /\ run = NoRun
    /\ meter = FALSE

SpecSapc == InitSapc /\ [][Next]_vars

(***************************************************************************)
(* C38: masked indexing.  In every ring-slot variant every read or write   *)
(* of ages[] and ents[] made by initialisation, push and pop uses the      *)
(* index (ticket & mask): no cell outside [0, size) is touched, and an     *)
(* object stored by initialisation at ticket t is found by the pop whose   *)
(* head equals t, that is, before any push the cell (t & mask) of every    *)
(* ticket between head and tail of a slot at rest holds age t and an       *)
(* object.                                                                 *)
(***************************************************************************)
MaskedIndexing ==
    \A c \in CpusOf(oh) :
        LET os == slots[c]
        IN  /\ DOMAIN os.ages = 0 .. (os.os_size - 1)
            /\ DOMAIN os.ents = 0 .. (os.os_size - 1)
            /\ (npush = 0 /\ SlotAtRest(c)) =>
                  \A t \in os.os_head .. (os.os_tail - 1) :
                      /\ os.ages[SlotIdx(os, t)] = t
                      /\ os.ents[SlotIdx(os, t)] > NULL
====
